---- MODULE Spec2Model ----
(***************************************************************************)
(* Model of the authentication core of the payments service:              *)
(*   - JWTManager            (app/common/adapters/cryptography/jwt.py)    *)
(*   - AuthService           (app/accounts/services/auth_service.py)      *)
(*   - InMemoryRepository / InMemoryUserRepository   (volatile backend)   *)
(*   - SQLModelRepository / SQLModelUserRepository   (relational backend) *)
(*                                                                         *)
(* Python's None and Optional values are modelled as sets: {} is None and *)
(* {v} is the value v.  A call's outcome is a record [exc, ret]: exc is   *)
(* the name of the exception class that left the call ("None" when it     *)
(* returned) and ret the returned value as an optional.  Time is counted  *)
(* in minutes of UTC.                                                      *)
(***************************************************************************)
EXTENDS Integers, Sequences, FiniteSets, TLC

VARIABLES
    backend,   \* which UserRepository the AuthService was constructed with
    mem,       \* InMemoryRepository._storage: insertion-ordered dict, as a sequence of entities
    db,        \* rows of table accounts_users (relational backend)
    now,       \* the real (UTC) time, in minutes
    tz,        \* offset of the process's local time zone from UTC, in minutes
    tokens,    \* the token string the client holds: {} or {token}
    issued,    \* when, with which lifetime and for which status that token was
               \* issued: {} or {[at, ttl, status]}
    last,      \* the last call made and its outcome
    running,   \* the calls in progress in concurrent threads or requests: a function
               \* from the caller to the position and local variables of its call
    org_db,    \* rows of table accounts_organizations (relational backend)
    held       \* what the calling code holds outside the repositories: the values that
               \* calls returned to it and the objects it has references to

vars == <<backend, mem, db, now, tz, tokens, issued, last, running, org_db, held>>

(***************************************************************************)
(* Bounds of the model                                                     *)
(***************************************************************************)
MaxStored == 1
MaxTicks == 2
MaxRecords == 2
MaxLimit == 3
MaxMethods == 3

(***************************************************************************)
(* Program constants                                                       *)
(***************************************************************************)
DEFAULT_EXPIRE_MINUTES == 15
access_token_expire_minutes == 30

\* the UUIDs the model uses
Ids == {"id-1", "id-2"}
Orgs == {"o1"}
Secrets == {"Secret123!", "wrong"}
TickMinutes == DEFAULT_EXPIRE_MINUTES
LocalOffsets == {0 - 60, 0, 60}

ACTIVE == "active"
INACTIVE == "inactive"
SUSPENDED == "suspended"
UserStatus == {ACTIVE, INACTIVE, SUSPENDED}

(***************************************************************************)
(* Strings.  An email string is the pair of its local part and its domain; *)
(* str.lower() is modelled on the atoms the model uses.                    *)
(***************************************************************************)
Locals == {"alice", "Alice"}
Domains == {"example.com", "EXAMPLE.COM"}
EmailStrings == [local : Locals, domain : Domains]

StrLower(s) ==
    CASE s = "Alice" -> "alice"
      [] s = "EXAMPLE.COM" -> "example.com"
      [] OTHER -> s

EmailStrLower(e) == [local |-> StrLower(e.local), domain |-> StrLower(e.domain)]

\* Email.validate_and_normalize_email: the local part keeps its case, the domain is lower-cased
validate_and_normalize_email(v) == [local |-> v.local, domain |-> StrLower(v.domain)]

\* the Email value objects there are (Email.value is always normalized)
Emails == {validate_and_normalize_email(v) : v \in EmailStrings}

\* the fields of the pydantic models: any other attribute raises on read (AttributeError)
\* or on assignment (ValueError)
EmailFields == {"value"}
UserFields == {"id", "email", "organization_id", "hashed_password", "name",
               "password", "status", "created_at", "last_login"}

(***************************************************************************)
(* Outcomes of calls                                                       *)
(***************************************************************************)
Ok(v) == [exc |-> "None", ret |-> {v}]
OkNone == [exc |-> "None", ret |-> {}]
Raise(e) == [exc |-> e, ret |-> {}]
Returned(o) == o.exc = "None"
Value(o) == CHOOSE v \in o.ret : TRUE

(***************************************************************************)
(* Credential Hasher: the hash of a secret identifies the secret (salts    *)
(* and cost parameters are left out).                                      *)
(***************************************************************************)
Hash(password) == <<"$argon2id$", password>>
Verify(plain_password, hashed_password) == hashed_password = Hash(plain_password)

(***************************************************************************)
(* User entity                                                             *)
(***************************************************************************)
User(id, email, org, hashed, status, last_login) ==
    [id |-> id, email |-> email, organization_id |-> org,
     hashed_password |-> hashed, status |-> status, last_login |-> last_login]

\* the entities a caller may construct and hand to save
NewUsers == {User(i, e, o, Hash("Secret123!"), s, {}) :
                i \in Ids, e \in Emails, o \in Orgs, s \in UserStatus}

(***************************************************************************)
(* Volatile backend: InMemoryRepository and InMemoryUserRepository.  Each  *)
(* operator gives the call's outcome; MemSaved/MemDeleted give _storage    *)
(* after the call.                                                         *)
(***************************************************************************)
MemIds == {mem[i].id : i \in 1..Len(mem)}
MemIndex(id) == CHOOSE i \in 1..Len(mem) : mem[i].id = id

\* self._storage[self._get_id(entity)] = entity: a stored key keeps its place in the dict
MemSaved(entity) ==
    IF entity.id \in MemIds
    THEN [mem EXCEPT ![MemIndex(entity.id)] = entity]
    ELSE Append(mem, entity)

MemSave(entity) == Ok(entity)

MemGet(id) ==
    IF id \in MemIds THEN Ok(mem[MemIndex(id)]) ELSE Raise("RecordNotFoundError")

MemDeleted(id) ==
    IF id \in MemIds
    THEN SelectSeq(mem, LAMBDA u : u.id # id)
    ELSE mem

MemDelete(id) ==
    IF id \in MemIds THEN Ok(TRUE) ELSE Raise("RecordNotFoundError")

MemCount == Len(mem)

\* next(user for user in _storage.values() if user.email.lower() == email.lower()):
\* user.email is an Email model, which has no attribute lower
MemGetByEmail(email) ==
    IF mem = <<>> THEN OkNone
    ELSE IF "lower" \notin EmailFields THEN Raise("AttributeError")
    ELSE LET hits == {i \in 1..Len(mem) : EmailStrLower(mem[i].email) = EmailStrLower(email)}
         IN  IF hits = {} THEN OkNone
             ELSE Ok(mem[CHOOSE i \in hits : \A j \in hits : i <= j])

\* user = self.get(user_id); user.last_login_at = datetime.now(); self.save(user):
\* User has no field last_login_at, so the assignment raises
MemUpdateLoginTime(user_id) ==
    IF ~Returned(MemGet(user_id)) THEN MemGet(user_id)
    ELSE IF "last_login_at" \notin UserFields THEN Raise("ValueError")
    ELSE OkNone

MemAfterUpdateLoginTime(user_id) ==
    IF Returned(MemUpdateLoginTime(user_id))
    THEN MemSaved([Value(MemGet(user_id)) EXCEPT !.last_login = {now + tz}])
    ELSE mem

(***************************************************************************)
(* Relational backend: table accounts_users (UserORM), SQLModelRepository  *)
(* and SQLModelUserRepository.                                             *)
(***************************************************************************)
UserORM(id, email, org, hashed, status, last_login_at) ==
    [id |-> id, email |-> email, organization_id |-> org,
     hashed_password |-> hashed, status |-> status, last_login_at |-> last_login_at]

\* primary key id, UniqueConstraint("email", "organization_id")
TableOk(rows) ==
    \A r1, r2 \in rows :
        (r1.id = r2.id \/ (r1.email = r2.email /\ r1.organization_id = r2.organization_id))
            => r1 = r2

\* the rows other clients of the database may write
NewRows == {UserORM(i, e, o, Hash("Secret123!"), s, {}) :
               i \in Ids, e \in Emails, o \in Orgs, s \in UserStatus}

\* _to_model reads user.email.email_address; Email has no such attribute
_to_model(user) ==
    IF "email_address" \notin EmailFields THEN Raise("AttributeError")
    ELSE Ok(UserORM(user.id, user.email, user.organization_id,
                    user.hashed_password, user.status, user.last_login))

\* _to_entity passes no status to User(...), so the entity gets the default UserStatus.ACTIVE
_to_entity(model) ==
    User(model.id, validate_and_normalize_email(model.email), model.organization_id,
         model.hashed_password, ACTIVE, model.last_login_at)

\* session.merge(db_model): insert or update by primary key
Merged(row) == {r \in db : r.id # row.id} \cup {row}

\* save: _to_model, merge, commit, refresh, _to_entity; any exception -> rollback, RepositoryError
SqlSave(entity) ==
    IF ~Returned(_to_model(entity)) THEN Raise("RepositoryError")
    ELSE IF ~TableOk(Merged(Value(_to_model(entity)))) THEN Raise("RepositoryError")
    ELSE Ok(_to_entity(Value(_to_model(entity))))

SqlSaved(entity) ==
    IF Returned(SqlSave(entity)) THEN Merged(Value(_to_model(entity))) ELSE db

SqlGet(id) ==
    IF \E r \in db : r.id = id
    THEN Ok(_to_entity(CHOOSE r \in db : r.id = id))
    ELSE Raise("RecordNotFoundError")

\* delete(self.model).where(id == id); commit; return result.rowcount > 0
SqlDelete(id) == Ok(\E r \in db : r.id = id)
SqlDeleted(id) == {r \in db : r.id # id}

SqlCount == Cardinality(db)

\* select(model).where(model.email == email); result.scalar_one_or_none()
SqlGetByEmail(email) ==
    LET hits == {r \in db : r.email = email}
    IN  IF hits = {} THEN OkNone
        ELSE IF Cardinality(hits) > 1 THEN Raise("MultipleResultsFound")
        ELSE Ok(_to_entity(CHOOSE r \in hits : TRUE))

\* async def update_login_time: calling it without await only creates a coroutine object;
\* its body never runs
SqlUpdateLoginTimeCall(user_id) == OkNone

\* the table after that call, had the body run to its end: the record that get returns
\* is written back whole with the new timestamp
SqlAfterUpdateLoginTimeCall_BodyRuns(user_id) ==
    IF ~Returned(SqlGet(user_id)) THEN db
    ELSE LET user == Value(SqlGet(user_id))
         IN  Merged(UserORM(user.id, user.email, user.organization_id,
                            user.hashed_password, user.status, {now + tz}))

\* the table after that call: nothing of the body has run, nothing is written
SqlAfterUpdateLoginTimeCall(user_id) == db

\* the body, when the coroutine is awaited: `await self.get(user_id)` awaits the User
\* that the synchronous get returned
SqlUpdateLoginTimeAwaited(user_id) ==
    IF ~Returned(SqlGet(user_id)) THEN SqlGet(user_id) ELSE Raise("TypeError")

(***************************************************************************)
(* The UserRepository the AuthService holds                                *)
(***************************************************************************)
Backends == {"memory", "sql"}

RepoGetByEmail(email) == IF backend = "memory" THEN MemGetByEmail(email) ELSE SqlGetByEmail(email)
RepoGet(id) == IF backend = "memory" THEN MemGet(id) ELSE SqlGet(id)
RepoSave(entity) == IF backend = "memory" THEN MemSave(entity) ELSE SqlSave(entity)
RepoDelete(id) == IF backend = "memory" THEN MemDelete(id) ELSE SqlDelete(id)
RepoCount == IF backend = "memory" THEN MemCount ELSE SqlCount
RepoUpdateLoginTime(user_id) ==
    IF backend = "memory" THEN MemUpdateLoginTime(user_id) ELSE SqlUpdateLoginTimeCall(user_id)

\* the stored principals, whatever the backend: id, status and last-authenticated timestamp
\* as they are in the store
Stored ==
    IF backend = "memory"
    THEN {[id |-> mem[i].id, email |-> mem[i].email, status |-> mem[i].status,
           organization_id |-> mem[i].organization_id,
           hashed_password |-> mem[i].hashed_password,
           last_login |-> mem[i].last_login] : i \in 1..Len(mem)}
    ELSE {[id |-> r.id, email |-> r.email, status |-> r.status,
           organization_id |-> r.organization_id,
           hashed_password |-> r.hashed_password,
           last_login |-> r.last_login_at] : r \in db}

(***************************************************************************)
(* Token Issuer: JWTManager over PyJWT.  A token string is modelled by its *)
(* claims and by its form: "signed" (signature valid for those claims),    *)
(* "tampered" (signature does not match) or "malformed" (not a JWT).       *)
(***************************************************************************)
Forms == {"signed", "tampered", "malformed"}

Claims(user_id, email, status) == [user_id |-> user_id, email |-> email, status |-> status]

\* datetime.now() is the naive local wall-clock time
LocalNow == now + tz

\* jwt.encode stores a naive datetime as if it were UTC (timegm(exp.utctimetuple()))
PyJwtEncode(data, expire) ==
    [user_id |-> data.user_id, email |-> data.email, status |-> data.status,
     exp |-> expire, form |-> "signed"]

\* create_access_token: expire = datetime.now() + (expires_delta or DEFAULT_EXPIRE_MINUTES)
JwtCreateAccessToken(data, expires_delta) ==
    Ok(PyJwtEncode(data, LocalNow + (IF expires_delta # {}
                                     THEN CHOOSE d \in expires_delta : TRUE
                                     ELSE DEFAULT_EXPIRE_MINUTES)))

\* jwt.decode: structure, then signature, then exp against the UTC clock
PyJwtDecode(token) ==
    IF token.form = "malformed" THEN Raise("DecodeError")
    ELSE IF token.form = "tampered" THEN Raise("InvalidSignatureError")
    ELSE IF token.exp <= now THEN Raise("ExpiredSignatureError")
    ELSE Ok([user_id |-> token.user_id, email |-> token.email,
             status |-> token.status, exp |-> token.exp])

\* app.common.exceptions.TokenError.__init__ calls
\* super().__init__(message=..., code=..., details=...) on Exception, which takes no
\* keyword arguments: constructing TokenError or a subclass raises TypeError instead
ExceptionInitKeywords == {}
TokenErrorInitKeywords == {"message", "code", "details"}
NewCommonTokenError(cls) ==
    IF TokenErrorInitKeywords \subseteq ExceptionInitKeywords THEN Raise(cls) ELSE Raise("TypeError")

\* decode_token: except jwt.ExpiredSignatureError -> ExpiredTokenError,
\*               except jwt.InvalidTokenError -> InvalidTokenError
JwtDecodeToken(token) ==
    LET r == PyJwtDecode(token)
    IN  IF Returned(r) THEN r
        ELSE IF r.exc = "ExpiredSignatureError" THEN NewCommonTokenError("ExpiredTokenError")
        ELSE NewCommonTokenError("InvalidTokenError")

\* refresh_token: decode, del payload["exp"], create_access_token(payload, expires_delta);
\* except (ExpiredTokenError, InvalidTokenError) -> TokenError
JwtRefreshToken(token, expires_delta) ==
    LET r == JwtDecodeToken(token)
    IN  IF Returned(r)
        THEN JwtCreateAccessToken(Claims(Value(r).user_id, Value(r).email, Value(r).status),
                                  expires_delta)
        ELSE IF r.exc \in {"ExpiredTokenError", "InvalidTokenError"}
        THEN NewCommonTokenError("TokenError")
        ELSE r

\* the PyJWT exceptions that derive from jwt.InvalidTokenError
PyJwtInvalidTokenErrors == {"DecodeError", "InvalidSignatureError", "ExpiredSignatureError"}

\* verify_token: jwt.decode(..., options={"verify_signature": True}) -> True;
\* except jwt.InvalidTokenError -> False
JwtVerifyToken_SignatureOnly(token) ==
    Ok(token.form = "signed")

JwtVerifyToken(token) ==
    LET r == PyJwtDecode(token)
    IN  IF Returned(r) THEN Ok(TRUE)
        ELSE IF r.exc \in PyJwtInvalidTokenErrors THEN Ok(FALSE)
        ELSE r

(***************************************************************************)
(* Authentication Orchestrator: AuthService                                *)
(***************************************************************************)
\* UserNotFoundError inherits RecordNotFoundError.__init__(entity_type, identifier, ...):
\* constructing it without identifier raises TypeError
RecordNotFoundInitRequired == {"entity_type", "identifier"}
NewUserNotFoundError(given) ==
    IF RecordNotFoundInitRequired \subseteq given THEN Raise("UserNotFoundError") ELSE Raise("TypeError")

\* authenticate_user: get_by_email, then password, then status
AuthenticateUser(email, password) ==
    LET found == RepoGetByEmail(email)
    IN  IF ~Returned(found) THEN found
        ELSE IF found.ret = {} THEN NewUserNotFoundError({"entity_type", "identifier"})
        ELSE IF ~Verify(password, Value(found).hashed_password) THEN Raise("AuthenticationError")
        ELSE IF Value(found).status # ACTIVE THEN Raise("InactiveUserError")
        ELSE found

\* the stores after authenticate_user: its only repository call is get_by_email, a read
MemAfterAuthenticateUser(email, password) == mem

SqlAfterAuthenticateUser_RecordsLogin(email, password) ==
    IF Returned(AuthenticateUser(email, password))
    THEN {IF r.id = Value(AuthenticateUser(email, password)).id
          THEN [r EXCEPT !.last_login_at = {LocalNow + 1}] ELSE r : r \in db}
    ELSE db

SqlAfterAuthenticateUser(email, password) == db

\* create_access_token(user): claims user_id, email, status; lifetime access_token_expire
AuthCreateAccessToken(user) ==
    JwtCreateAccessToken(Claims(user.id, user.email, user.status),
                         {access_token_expire_minutes})

\* get_logged_in_user raises app.accounts.exceptions.TokenError ("accounts.TokenError" here);
\* JWTManager raises the classes of app.common.exceptions.
\* get_logged_in_user up to the status gate: the outcome when it fails there, else the user
ResolveChecks(token) ==
    LET payload == JwtDecodeToken(token)
    IN  IF ~Returned(payload)
        THEN (IF payload.exc \in {"ValueError", "KeyError"}
              THEN Raise("accounts.TokenError")
              ELSE payload)
        ELSE LET found == RepoGetByEmail(validate_and_normalize_email(Value(payload).email))
             IN  IF ~Returned(found) THEN found
                 ELSE IF found.ret = {} THEN NewUserNotFoundError({"entity_type"})
                 ELSE IF Value(found).id # Value(payload).user_id
                 THEN Raise("accounts.TokenError")
                 ELSE IF Value(found).status # ACTIVE THEN Raise("InactiveUserError")
                 ELSE found

\* get_logged_in_user: the checks, then self.user_repo.update_login_time(user.id), return user
GetLoggedInUser(token) ==
    LET checked == ResolveChecks(token)
    IN  IF ~Returned(checked) THEN checked
        ELSE IF ~Returned(RepoUpdateLoginTime(Value(checked).id))
        THEN RepoUpdateLoginTime(Value(checked).id)
        ELSE checked

MemAfterGetLoggedInUser(token) ==
    IF backend = "memory" /\ Returned(ResolveChecks(token))
    THEN MemAfterUpdateLoginTime(Value(ResolveChecks(token)).id)
    ELSE mem

(***************************************************************************)
(* REST port: POST /auth/token.  A response is its status code and what    *)
(* its body shows: the token, or the detail text.                          *)
(***************************************************************************)
HTTP_401_UNAUTHORIZED == 401
HTTP_200_OK == 200
HTTP_500_INTERNAL_SERVER_ERROR == 500

\* str(e) of the exceptions authenticate_user raises
Detail(exc) ==
    CASE exc = "AuthenticationError" -> "Invalid email or password"
      [] exc = "UserNotFoundError" -> "User with identifier not found"
      [] exc = "InactiveUserError" -> "User account is not active"
      [] OTHER -> "Internal Server Error"

\* oauth_login: authenticate_user, create_access_token, TokenResponse;
\* except (UserNotFoundError, AuthenticationError) -> HTTPException(401, detail=str(e));
\* any other exception leaves the handler and the server answers 500
oauth_login(username, password) ==
    LET user == AuthenticateUser(username, password)
        token == AuthCreateAccessToken(Value(user))
    IN  IF Returned(user)
        THEN (IF Returned(token)
              THEN [status_code |-> HTTP_200_OK, token |-> token.ret, detail |-> {}]
              ELSE [status_code |-> HTTP_500_INTERNAL_SERVER_ERROR, token |-> {},
                    detail |-> {Detail(token.exc)}])
        ELSE IF user.exc \in {"UserNotFoundError", "AuthenticationError"}
        THEN [status_code |-> HTTP_401_UNAUTHORIZED, token |-> {},
              detail |-> {Detail(user.exc)}]
        ELSE [status_code |-> HTTP_500_INTERNAL_SERVER_ERROR, token |-> {},
              detail |-> {Detail(user.exc)}]

(***************************************************************************)
(* Filters.  A filter map is the set of its items, one per key; the value  *)
(* of an item is a scalar (vals = {v}), a list (vals = its elements) or a  *)
(* dict with any of the keys min, max, like (each {} when absent).         *)
(***************************************************************************)
FScalar(v) == [kind |-> "scalar", vals |-> {v}, min |-> {}, max |-> {}, like |-> {}]
FList(elements) == [kind |-> "list", vals |-> elements, min |-> {}, max |-> {}, like |-> {}]
FDict(min, max, like) == [kind |-> "dict", vals |-> {}, min |-> min, max |-> max, like |-> like]
Item(field, value) == [field |-> field, value |-> value]

\* the order of the strings of the model, as Python and SQL compare them
StrOrder == <<"%active", "active", "id-1", "id-2", "inactive", "o1", "suspended">>
StrRank(s) == CHOOSE i \in 1..Len(StrOrder) : StrOrder[i] = s
StrLeq(a, b) == StrRank(a) <= StrRank(b)

\* SQL LIKE on the strings of the model: % stands for any run of characters
Like(s, pattern) ==
    IF pattern = "%active" THEN s \in {"active", "inactive"} ELSE s = pattern

\* InMemoryRepository: all(getattr(entity, key) == value for key, value in filters.items());
\* a field never equals a list or a dict
MemMatches(entity, filters) ==
    \A item \in filters :
        /\ item.value.kind = "scalar"
        /\ entity[item.field] \in item.value.vals

\* SQLModelRepository._filter: list -> IN, dict -> >= min, <= max, LIKE like,
\* anything else -> ==; a key that is no column of the model is skipped
UserORMColumns == {"id", "name", "email", "hashed_password", "last_login_at",
                   "organization_id", "created_at", "status"}
\* what getattr(self.model, field, None) finds besides the columns: the class attributes
\* every SQLModel table class has (metadata is the MetaData of the declarative base)
ModelClassAttributes == {"metadata"}

\* such an attribute is no None, so the item is not skipped: `attribute == value` is the
\* Python value False, and where(False) selects no row; .in_, .like and >= are
\* operations the attribute does not have
NoColumn(item) ==
    IF item.value.kind = "scalar" THEN FALSE
    ELSE item.value.kind = "dict" /\ item.value.min \cup item.value.max \cup item.value.like = {}

FilterErrors(filters) ==
    {IF item.value.kind = "dict" /\ item.value.min \cup item.value.max # {}
     THEN "TypeError" ELSE "AttributeError" :
        item \in {i \in filters : /\ i.field \in ModelClassAttributes
                                  /\ i.value.kind # "scalar"
                                  /\ ~NoColumn(i)}}

_filter(row, filters) ==
    \A item \in filters :
        IF item.field \in ModelClassAttributes THEN NoColumn(item)
        ELSE IF item.field \notin UserORMColumns THEN TRUE
        ELSE IF item.value.kind = "list" THEN row[item.field] \in item.value.vals
        ELSE IF item.value.kind = "dict"
        THEN /\ \A v \in item.value.min : StrLeq(v, row[item.field])
             /\ \A v \in item.value.max : StrLeq(row[item.field], v)
             /\ \A v \in item.value.like : Like(row[item.field], v)
        ELSE row[item.field] \in item.value.vals

(***************************************************************************)
(* Queries and bulk operations of the two repositories                     *)
(***************************************************************************)
Min(a, b) == IF a <= b THEN a ELSE b

\* the slice as it would be with an end that is one too far
Slice_OneTooFar(entities, offset, limit) ==
    SubSeq(entities, offset + 1, Min(offset + limit + 1, Len(entities)))

\* entities[offset : offset + limit]
Slice(entities, offset, limit) ==
    SubSeq(entities, offset + 1, Min(offset + limit, Len(entities)))

\* the orders in which a set can be listed
Orders(S) == {q \in [1..Cardinality(S) -> S] : \A i, j \in 1..Cardinality(S) : q[i] = q[j] => i = j}

\* list.sort(key=getattr(x, sort_by)) / ORDER BY sort_by
SortedBy(q, sort_by) ==
    \A i, j \in 1..Len(q) : i < j => \A f \in sort_by : StrLeq(q[i][f], q[j][f])

ValidationError == "ValidationError"

\* find_one as it would be if an absent match were reported like get reports an absent id
MemFindOne_RaisesWhenAbsent(filters) ==
    IF filters = {} THEN Raise(ValidationError)
    ELSE LET hits == {i \in 1..Len(mem) : MemMatches(mem[i], filters)}
         IN  IF hits = {} THEN Raise("RecordNotFoundError")
             ELSE Ok(mem[CHOOSE i \in hits : \A j \in hits : i <= j])

MemFindOne(filters) ==
    IF filters = {} THEN Raise(ValidationError)
    ELSE LET hits == {i \in 1..Len(mem) : MemMatches(mem[i], filters)}
         IN  IF hits = {} THEN OkNone
             ELSE Ok(mem[CHOOSE i \in hits : \A j \in hits : i <= j])

MemExists(filters) ==
    IF filters = {} THEN Raise(ValidationError)
    ELSE Ok(\E i \in 1..Len(mem) : MemMatches(mem[i], filters))

\* list(self._storage.values()), filtered, sorted (a stable sort), sliced
MemListAll(limit, offset, sort_by, filters) ==
    LET entities == SelectSeq(mem, LAMBDA e : MemMatches(e, filters))
        sorted == IF sort_by = {} THEN entities
                  ELSE CHOOSE q \in Orders({entities[i] : i \in 1..Len(entities)}) :
                           SortedBy(q, sort_by)
    IN  Ok(Slice(sorted, offset, limit))

MemCountWhere(filters) ==
    Ok(Cardinality({i \in 1..Len(mem) : MemMatches(mem[i], filters)}))

RECURSIVE MemAllSaved(_, _)
MemAllSaved(storage, entities) ==
    IF entities = <<>> THEN storage
    ELSE MemAllSaved(IF \E i \in 1..Len(storage) : storage[i].id = Head(entities).id
                     THEN [i \in 1..Len(storage) |->
                              IF storage[i].id = Head(entities).id THEN Head(entities)
                              ELSE storage[i]]
                     ELSE Append(storage, Head(entities)),
                     Tail(entities))

MemBulkSave(entities) == Ok(entities)
MemBulkSaved(entities) == MemAllSaved(mem, entities)

\* getattr(entity, key) of a key that is no field of the entity raises AttributeError; it
\* is read for an entity whose other keys match (all() stops at the first key that differs)
MemKeyError(filters) ==
    \E i \in 1..Len(mem) :
        /\ \E item \in filters : item.field \notin UserFields
        /\ MemMatches(mem[i], {item \in filters : item.field \in UserFields})

\* bulk_delete: the ids to delete are collected outside the try
MemBulkDelete(filters) ==
    IF filters = {} THEN Raise(ValidationError)
    ELSE IF MemKeyError(filters) THEN Raise("AttributeError")
    ELSE Ok(Cardinality({i \in 1..Len(mem) :
                MemMatches(mem[i], {item \in filters : item.field \in UserFields})}))

MemBulkDeleted(filters) ==
    IF ~Returned(MemBulkDelete(filters)) THEN mem
    ELSE SelectSeq(mem, LAMBDA e :
             ~MemMatches(e, {item \in filters : item.field \in UserFields}))

\* select(model) + _filter, result.first(): without ORDER BY any matching row may come first
SqlFindOne(filters) ==
    IF filters = {} THEN {Raise(ValidationError)}
    ELSE IF FilterErrors(filters) # {} THEN {Raise(e) : e \in FilterErrors(filters)}
    ELSE LET hits == {r \in db : _filter(r, filters)}
         IN  IF hits = {} THEN {OkNone} ELSE {Ok(_to_entity(r)) : r \in hits}

SqlExists(filters) ==
    IF filters = {} THEN Raise(ValidationError)
    ELSE IF FilterErrors(filters) # {} THEN Raise(CHOOSE e \in FilterErrors(filters) : TRUE)
    ELSE Ok(\E r \in db : _filter(r, filters))

\* select(model).limit(limit).offset(offset) [+ _filter] [+ order_by]: the rows come in
\* the order of sort_by, or in any order when there is none
SqlListAll(limit, offset, sort_by, filters) ==
    IF FilterErrors(filters) # {} THEN {Raise(e) : e \in FilterErrors(filters)}
    ELSE
    {Ok(Slice([i \in 1..Len(q) |-> _to_entity(q[i])], offset, limit)) :
        q \in {o \in Orders({r \in db : _filter(r, filters)}) : SortedBy(o, sort_by)}}

SqlCountWhere(filters) ==
    IF FilterErrors(filters) # {} THEN Raise(CHOOSE e \in FilterErrors(filters) : TRUE)
    ELSE Ok(Cardinality({r \in db : _filter(r, filters)}))

\* bulk_save: [_to_model(e) for e in entities], session.bulk_save_objects (INSERTs),
\* commit, [_to_entity(m) for m in db_models]; any exception -> rollback, RepositoryError
SqlBulkInserted(entities) ==
    db \cup {Value(_to_model(entities[i])) : i \in 1..Len(entities)}

SqlBulkSave(entities) ==
    IF \E i \in 1..Len(entities) : ~Returned(_to_model(entities[i]))
    THEN Raise("RepositoryError")
    ELSE IF \/ \E i, j \in 1..Len(entities) : i # j /\ entities[i].id = entities[j].id
            \/ \E i \in 1..Len(entities) : \E r \in db : r.id = entities[i].id
            \/ ~TableOk(SqlBulkInserted(entities))
    THEN Raise("RepositoryError")
    ELSE Ok([i \in 1..Len(entities) |-> _to_entity(Value(_to_model(entities[i])))])

SqlBulkSaved(entities) ==
    IF Returned(SqlBulkSave(entities)) THEN SqlBulkInserted(entities) ELSE db

\* bulk_delete: delete(model) + _filter, commit, result.rowcount
SqlBulkDelete(filters) ==
    IF filters = {} THEN Raise(ValidationError)
    ELSE IF FilterErrors(filters) # {} THEN Raise("RepositoryError")
    ELSE Ok(Cardinality({r \in db : _filter(r, filters)}))

SqlBulkDeleted(filters) ==
    IF Returned(SqlBulkDelete(filters)) THEN {r \in db : ~_filter(r, filters)} ELSE db

\* the outcomes the repository in use may give
RepoFindOne(filters) == IF backend = "memory" THEN {MemFindOne(filters)} ELSE SqlFindOne(filters)
RepoExists(filters) == IF backend = "memory" THEN MemExists(filters) ELSE SqlExists(filters)
RepoListAll(limit, offset, sort_by, filters) ==
    IF backend = "memory" THEN {MemListAll(limit, offset, sort_by, filters)}
    ELSE SqlListAll(limit, offset, sort_by, filters)
RepoCountWhere(filters) ==
    IF backend = "memory" THEN MemCountWhere(filters) ELSE SqlCountWhere(filters)
RepoBulkSave(entities) ==
    IF backend = "memory" THEN MemBulkSave(entities) ELSE SqlBulkSave(entities)
RepoBulkDelete(filters) ==
    IF backend = "memory" THEN MemBulkDelete(filters) ELSE SqlBulkDelete(filters)

(***************************************************************************)
(* Organizations and merchants on the relational backend:                  *)
(* SQLModelOrganizationRepository and SQLModelMerchantRepository.          *)
(***************************************************************************)
PENDING == "pending"
UNDER_REVIEW == "under_review"
OrganizationStatus == {ACTIVE, SUSPENDED, PENDING}
MerchantStatus == {ACTIVE, SUSPENDED, UNDER_REVIEW}

Organization(id, name, domain, created_at, updated_at, status, metadata) ==
    [id |-> id, name |-> name, domain |-> domain, created_at |-> created_at,
     updated_at |-> updated_at, status |-> status, metadata |-> metadata]

OrganizationORM(id, name, domain, status, created_at) ==
    [id |-> id, name |-> name, domain |-> domain, status |-> status,
     created_at |-> created_at]

\* primary key id, name unique, domain unique
OrgTableOk(rows) ==
    \A r1, r2 \in rows :
        (r1.id = r2.id \/ r1.name = r2.name \/ r1.domain = r2.domain) => r1 = r2

Organization_to_model(organization) ==
    OrganizationORM(organization.id, organization.name, organization.domain,
                    organization.status, organization.created_at)

\* updated_at and metadata are not passed: they get their defaults, datetime.now() and {}
Organization_to_entity(model) ==
    Organization(model.id, model.name, model.domain, model.created_at, LocalNow,
                 model.status, {})

Merchant(id, organization_id, name, description, country_code, currency, created_at, updated_at, status, payment_methods, api_keys, metadata) ==
    [id |-> id, organization_id |-> organization_id, name |-> name,
     description |-> description, country_code |-> country_code, currency |-> currency,
     created_at |-> created_at, updated_at |-> updated_at, status |-> status,
     payment_methods |-> payment_methods, api_keys |-> api_keys, metadata |-> metadata]

MerchantORM(id, name, status, country_code, currency, created_at, organization_id) ==
    [id |-> id, name |-> name, status |-> status, country_code |-> country_code,
     currency |-> currency, created_at |-> created_at, organization_id |-> organization_id]

Merchant_to_model(merchant) ==
    MerchantORM(merchant.id, merchant.name, merchant.status, merchant.country_code,
                merchant.currency, merchant.created_at, merchant.organization_id)

\* description, updated_at, payment_methods, api_keys and metadata get their defaults
Merchant_to_entity(model) ==
    Merchant(model.id, model.organization_id, model.name, {}, model.country_code,
             model.currency, model.created_at, LocalNow, model.status, <<>>, <<>>, {})

\* SQLModelRepository on accounts_organizations.  A call may lose the database: fault
\* says where the connection fails, "none" (it does not), "statement" (while a statement
\* of the call runs, before the commit), "commit" (the commit fails and nothing is
\* committed) or "refresh" (after the commit, in session.refresh)
Faults == {"none", "statement", "commit", "refresh"}

OrgMerged(row) == {r \in org_db : r.id # row.id} \cup {row}

\* save: _to_model, merge, commit, refresh, _to_entity; any exception -> rollback,
\* RepositoryError
OrgSave(entity, fault) ==
    IF fault \in {"statement", "commit"} THEN Raise("RepositoryError")
    ELSE IF ~OrgTableOk(OrgMerged(Organization_to_model(entity))) THEN Raise("RepositoryError")
    ELSE IF fault = "refresh" THEN Raise("RepositoryError")
    ELSE Ok(Organization_to_entity(Organization_to_model(entity)))

\* the table after save: the merged row is there once the commit went through
OrgSaved(entity, fault) ==
    IF /\ fault \notin {"statement", "commit"}
       /\ OrgTableOk(OrgMerged(Organization_to_model(entity)))
    THEN OrgMerged(Organization_to_model(entity))
    ELSE org_db

OrgBulkInserted(entities) ==
    org_db \cup {Organization_to_model(entities[i]) : i \in 1..Len(entities)}

\* bulk_save: bulk_save_objects (INSERTs), commit, [_to_entity(m) for m in db_models]
OrgBulkSave(entities, fault) ==
    IF fault \in {"statement", "commit"} THEN Raise("RepositoryError")
    ELSE IF \/ \E i, j \in 1..Len(entities) : i # j /\ entities[i].id = entities[j].id
            \/ \E i \in 1..Len(entities) : \E r \in org_db : r.id = entities[i].id
            \/ ~OrgTableOk(OrgBulkInserted(entities))
    THEN Raise("RepositoryError")
    ELSE Ok([i \in 1..Len(entities) |->
                Organization_to_entity(Organization_to_model(entities[i]))])

OrgBulkSaved(entities, fault) ==
    IF Returned(OrgBulkSave(entities, fault)) THEN OrgBulkInserted(entities) ELSE org_db

OrgGet(id) ==
    IF \E r \in org_db : r.id = id
    THEN Ok(Organization_to_entity(CHOOSE r \in org_db : r.id = id))
    ELSE Raise("RecordNotFoundError")

\* delete: execute, commit, return result.rowcount > 0
OrgDelete(id, fault) ==
    IF fault \in {"statement", "commit"} THEN Raise("RepositoryError")
    ELSE Ok(\E r \in org_db : r.id = id)

OrgDeleted(id, fault) ==
    IF Returned(OrgDelete(id, fault)) THEN {r \in org_db : r.id # id} ELSE org_db

OrganizationORMColumns == {"id", "name", "domain", "status", "created_at"}
Org_filter(row, filters) ==
    \A item \in filters :
        IF item.field \in ModelClassAttributes THEN NoColumn(item)
        ELSE IF item.field \notin OrganizationORMColumns THEN TRUE
        ELSE IF item.value.kind = "list" THEN row[item.field] \in item.value.vals
        ELSE IF item.value.kind = "dict"
        THEN /\ \A v \in item.value.min : StrLeq(v, row[item.field])
             /\ \A v \in item.value.max : StrLeq(row[item.field], v)
             /\ \A v \in item.value.like : Like(row[item.field], v)
        ELSE row[item.field] \in item.value.vals

\* bulk_delete: filters required; execute, commit, return result.rowcount
OrgBulkDelete(filters, fault) ==
    IF filters = {} THEN Raise(ValidationError)
    ELSE IF fault \in {"statement", "commit"} THEN Raise("RepositoryError")
    ELSE IF FilterErrors(filters) # {} THEN Raise("RepositoryError")
    ELSE Ok(Cardinality({r \in org_db : Org_filter(r, filters)}))

OrgBulkDeleted(filters, fault) ==
    IF Returned(OrgBulkDelete(filters, fault))
    THEN {r \in org_db : ~Org_filter(r, filters)}
    ELSE org_db

(***************************************************************************)
(* The state machine                                                       *)
(***************************************************************************)
Call(op, arg, out) == [op |-> op, arg |-> arg, out |-> out]

Init ==
    /\ backend \in Backends
    /\ mem = <<>>
    /\ db = {}
    /\ now = 0
    /\ tz = 0
    /\ tokens = {}
    /\ issued = {}
    /\ last = Call("init", <<>>, OkNone)
    /\ running = <<>>
    /\ org_db = {}
    /\ held = <<>>

\* real time passes
Tick ==
    /\ now < MaxTicks * TickMinutes
    /\ now' = now + TickMinutes
    /\ last' = Call("tick", <<>>, OkNone)
    /\ UNCHANGED <<held, org_db, running, backend, mem, db, tz, tokens, issued>>

\* user_repo.save(entity); the model follows at most `capacity` principals at a time
SaveUpTo(entity, capacity) ==
    /\ entity.id \in {u.id : u \in Stored} \/ RepoCount < capacity
    /\ mem' = IF backend = "memory" THEN MemSaved(entity) ELSE mem
    /\ db' = IF backend = "sql" THEN SqlSaved(entity) ELSE db
    /\ last' = Call("save",
                    [entity |-> entity, count |-> RepoCount,
                     stored |-> entity.id \in {u.id : u \in Stored}],
                    RepoSave(entity))
    /\ UNCHANGED <<held, org_db, running, backend, now, tz, tokens, issued>>

Save(entity) == SaveUpTo(entity, MaxStored)

\* user_repo.delete(id)
Delete(id) ==
    /\ mem' = IF backend = "memory" THEN MemDeleted(id) ELSE mem
    /\ db' = IF backend = "sql" THEN SqlDeleted(id) ELSE db
    /\ last' = Call("delete",
                    [id |-> id, stored |-> id \in {u.id : u \in Stored}, before |-> Stored],
                    RepoDelete(id))
    /\ UNCHANGED <<held, org_db, running, backend, now, tz, tokens, issued>>

\* user = user_repo.get(id); user.activate() / deactivate() / suspend(); user_repo.save(user)
ChangeStatus(id, status) ==
    /\ Returned(RepoGet(id))
    /\ LET user == [Value(RepoGet(id)) EXCEPT !.status = status]
       IN  /\ mem' = IF backend = "memory" THEN MemSaved(user) ELSE mem
           /\ db' = IF backend = "sql" THEN SqlSaved(user) ELSE db
           /\ last' = Call("change_status", [id |-> id, status |-> status], RepoSave(user))
    /\ UNCHANGED <<held, org_db, running, backend, now, tz, tokens, issued>>

\* another client of the database (seed data, administration) writes or removes a row of
\* accounts_users; the table's constraints hold
ExternalWriteUpTo(capacity) ==
    /\ backend = "sql"
    /\ \/ \E row \in NewRows :
            /\ TableOk(Merged(row))
            /\ Cardinality(Merged(row)) <= capacity
            /\ db' = Merged(row)
       \/ \E row \in db : db' = db \ {row}
    /\ last' = Call("external_write", <<>>, OkNone)
    /\ UNCHANGED <<held, org_db, running, backend, mem, now, tz, tokens, issued>>

ExternalWrite == ExternalWriteUpTo(MaxStored)

\* auth_service.authenticate_user(email, password)
Authenticate(email, password) ==
    /\ mem' = MemAfterAuthenticateUser(email, password)
    /\ db' = SqlAfterAuthenticateUser(email, password)
    /\ last' = Call("authenticate_user",
                    [email |-> email, password |-> password,
                     before |-> [mem |-> mem, db |-> db]],
                    AuthenticateUser(email, password))
    /\ UNCHANGED <<held, org_db, running, backend, now, tz, tokens, issued>>

\* the client keeps the token it was given last
Kept(token) == {token}

\* auth_service.create_access_token(user) for a user read from the repository
CreateAccessToken(id) ==
    /\ Returned(RepoGet(id))
    /\ LET out == AuthCreateAccessToken(Value(RepoGet(id)))
       IN  /\ tokens' = Kept(Value(out))
           /\ issued' = {[at |-> now, ttl |-> access_token_expire_minutes,
                           status |-> (CHOOSE u \in Stored : u.id = id).status]}
           /\ last' = Call("create_access_token", [id |-> id], out)
    /\ UNCHANGED <<held, org_db, running, backend, mem, db, now, tz>>

\* POST /auth/token with form fields username and password; get_auth_service builds the
\* AuthService over SQLModelUserRepository.  The client keeps the token of a 200 response
OauthLogin(username, password) ==
    /\ backend = "sql"
    /\ LET response == oauth_login(username, password)
       IN  /\ tokens' = IF response.token # {} THEN response.token ELSE tokens
           /\ issued' = IF response.token # {}
                        THEN {[at |-> now, ttl |-> access_token_expire_minutes,
                               status |-> (CHOOSE r \in db : r.email = username).status]}
                        ELSE issued
           /\ last' = Call("oauth_login",
                           [username |-> username, password |-> password], Ok(response))
    /\ UNCHANGED <<held, org_db, running, backend, mem, db, now, tz>>

\* the token strings a client may present: an issued token, unchanged, altered or garbled
Presentable == {[t EXCEPT !.form = f] : t \in tokens, f \in Forms}

\* auth_service.get_logged_in_user(token)
ResolveSession(token) ==
    /\ mem' = MemAfterGetLoggedInUser(token)
    /\ last' = Call("get_logged_in_user", [token |-> token, before |-> Stored],
                    GetLoggedInUser(token))
    /\ UNCHANGED <<held, org_db, running, backend, db, now, tz, tokens, issued>>

\* user_repo.update_login_time(user_id) called on the repository itself
\* (awaited on the relational backend, where it is a coroutine function)
UpdateLoginTime(user_id) ==
    /\ mem' = IF backend = "memory" THEN MemAfterUpdateLoginTime(user_id) ELSE mem
    /\ last' = Call("update_login_time", [id |-> user_id],
                    IF backend = "memory" THEN MemUpdateLoginTime(user_id)
                    ELSE SqlUpdateLoginTimeAwaited(user_id))
    /\ UNCHANGED <<held, org_db, running, backend, db, now, tz, tokens, issued>>

Next ==
    \/ Tick
    \/ \E entity \in NewUsers : Save(entity)
    \/ \E id \in Ids : Delete(id)
    \/ \E id \in Ids, status \in UserStatus : ChangeStatus(id, status)
    \/ ExternalWrite
    \/ \E email \in EmailStrings, password \in Secrets : Authenticate(email, password)
    \/ \E username \in EmailStrings, password \in Secrets : OauthLogin(username, password)
    \/ \E id \in Ids : CreateAccessToken(id)
    \/ \E token \in Presentable : ResolveSession(token)
    \/ \E id \in Ids : UpdateLoginTime(id)

Spec == Init /\ [][Next]_vars

(***************************************************************************)
(* The Token Issuer on its own: JWTManager called directly, in a process   *)
(* whose local time zone is any of LocalOffsets.                           *)
(***************************************************************************)
ExpiresDeltas == {{}, {access_token_expire_minutes}}
Lifetime(expires_delta) ==
    IF expires_delta # {} THEN CHOOSE d \in expires_delta : TRUE ELSE DEFAULT_EXPIRE_MINUTES

JwtInit ==
    /\ backend = "memory"
    /\ mem = <<>>
    /\ db = {}
    /\ now = 0
    /\ tz \in LocalOffsets
    /\ tokens = {}
    /\ issued = {}
    /\ last = Call("init", <<>>, OkNone)
    /\ running = <<>>
    /\ org_db = {}
    /\ held = <<>>

\* token_manager.create_access_token(data, expires_delta)
JwtIssue(data, expires_delta) ==
    /\ LET out == JwtCreateAccessToken(data, expires_delta)
       IN  /\ tokens' = Kept(Value(out))
           /\ issued' = {[at |-> now, ttl |-> Lifetime(expires_delta),
                           status |-> data.status]}
           /\ last' = Call("jwt_create_access_token",
                           [data |-> data, expires_delta |-> expires_delta], out)
    /\ UNCHANGED <<held, org_db, running, backend, mem, db, now, tz>>

\* token_manager.decode_token(token)
DecodeToken(token) ==
    /\ last' = Call("decode_token", [token |-> token], JwtDecodeToken(token))
    /\ UNCHANGED <<held, org_db, running, backend, mem, db, now, tz, tokens, issued>>

\* token_manager.refresh_token(token, expires_delta); the client keeps the new token
RefreshToken(token, expires_delta) ==
    /\ LET out == JwtRefreshToken(token, expires_delta)
       IN  /\ tokens' = IF Returned(out) THEN Kept(Value(out)) ELSE tokens
           /\ issued' = IF Returned(out)
                        THEN {[at |-> now, ttl |-> Lifetime(expires_delta),
                               status |-> Value(out).status]}
                        ELSE issued
           /\ last' = Call("refresh_token",
                           [token |-> token, expires_delta |-> expires_delta], out)
    /\ UNCHANGED <<held, org_db, running, backend, mem, db, now, tz>>

\* token_manager.verify_token(token)
VerifyToken(token) ==
    /\ last' = Call("verify_token", [token |-> token], JwtVerifyToken(token))
    /\ UNCHANGED <<held, org_db, running, backend, mem, db, now, tz, tokens, issued>>

JwtNext ==
    \/ Tick
    \/ \E token \in Presentable : VerifyToken(token)
    \/ \E id \in Ids, email \in Emails, status \in UserStatus, d \in ExpiresDeltas :
            JwtIssue(Claims(id, email, status), d)
    \/ \E token \in Presentable : DecodeToken(token)
    \/ \E token \in Presentable, d \in ExpiresDeltas : RefreshToken(token, d)

SpecJwt == JwtInit /\ [][JwtNext]_vars

(***************************************************************************)
(* Registration: UserService.create_user                                   *)
(***************************************************************************)
\* Password(plain_password): the complexity rules (length, upper, lower, digit, special)
PasswordOk(plain_password) == plain_password = "Secret123!"

\* find_one(self, filters) takes one argument; create_user calls
\* self.user_repo.find_one(email.value, {"organization_id": ..., "email": email})
FindOneParameters == <<"filters">>
CreateUserFindOneArguments(email, organization_id) ==
    <<email, {Item("organization_id", FScalar(organization_id)), Item("email", FScalar(email))}>>

\* create_user up to the save: the outcome when it ends there, else Ok of the User to save
CreateUserChecks(id, email_address, plain_password, organization_id, status) ==
    LET email == validate_and_normalize_email(email_address)
        arguments == CreateUserFindOneArguments(email, organization_id)
    IN  IF ~PasswordOk(plain_password) THEN Raise("pydantic.ValidationError")
        ELSE IF Len(arguments) > Len(FindOneParameters) THEN Raise("TypeError")
        ELSE LET found == RepoFindOne(arguments[Len(arguments)])
             IN  IF \E o \in found : ~Returned(o) THEN CHOOSE o \in found : ~Returned(o)
                 ELSE IF \E o \in found : o.ret # {} THEN Raise(ValidationError)
                 ELSE Ok(User(id, email, organization_id, Hash(plain_password), status, {}))

\* create_user: the checks, self.user_repo.save(user), return user
CreateUser(id, email_address, plain_password, organization_id, status) ==
    LET checked == CreateUserChecks(id, email_address, plain_password, organization_id, status)
    IN  IF ~Returned(checked) THEN checked
        ELSE IF ~Returned(RepoSave(Value(checked))) THEN RepoSave(Value(checked))
        ELSE checked

(***************************************************************************)
(* The Persistence Gateway called directly, one call at a time, on either  *)
(* backend, and registrations through UserService.                         *)
(***************************************************************************)
FilterMaps ==
    {{},
     {Item("status", FScalar(ACTIVE))},
     {Item("status", FList({ACTIVE, INACTIVE}))},
     {Item("status", FDict({}, {}, {"%active"}))},
     {Item("status", FDict({INACTIVE}, {}, {}))},
     {Item("status", FDict({}, {INACTIVE}, {}))},
     {Item("id", FScalar("id-1"))},
     {Item("organization_id", FScalar("o1")), Item("status", FScalar(INACTIVE))}}

\* the filter maps handed to bulk_delete: those, and one whose only key names no field
BulkDeleteMaps == FilterMaps \cup {{Item("shoe_size", FScalar("o1"))}}

Limits == {1, 2}
Offsets == {0, 1}
SortKeys == {{}, {"id"}}

\* the lists handed to bulk_save
BulkUsers == {u \in NewUsers : u.status = ACTIVE}
BulkLists == {<<>>} \cup {<<u>> : u \in BulkUsers} \cup {<<u, v>> : u, v \in BulkUsers}

RepoInit ==
    /\ backend \in Backends
    /\ mem = <<>>
    /\ db = {}
    /\ now = 0
    /\ tz = 0
    /\ tokens = {}
    /\ issued = {}
    /\ last = Call("init", <<>>, OkNone)
    /\ running = <<>>
    /\ org_db = {}
    /\ held = <<>>

\* user_repo.find_one(filters)
FindOne(filters) ==
    /\ \E out \in RepoFindOne(filters) :
            last' = Call("find_one", [filters |-> filters, before |-> Stored], out)
    /\ UNCHANGED <<held, org_db, running, backend, mem, db, now, tz, tokens, issued>>

\* user_repo.exists(filters)
Exists(filters) ==
    /\ last' = Call("exists", [filters |-> filters, before |-> Stored], RepoExists(filters))
    /\ UNCHANGED <<held, org_db, running, backend, mem, db, now, tz, tokens, issued>>

\* user_repo.list_all(limit, offset, sort_by, filters)
ListAll(limit, offset, sort_by, filters) ==
    /\ \E out \in RepoListAll(limit, offset, sort_by, filters) :
            last' = Call("list_all",
                         [limit |-> limit, offset |-> offset, sort_by |-> sort_by,
                          filters |-> filters],
                         out)
    /\ UNCHANGED <<held, org_db, running, backend, mem, db, now, tz, tokens, issued>>

\* user_repo.count(filters)
Count(filters) ==
    /\ last' = Call("count", [filters |-> filters], RepoCountWhere(filters))
    /\ UNCHANGED <<held, org_db, running, backend, mem, db, now, tz, tokens, issued>>

\* user_repo.bulk_save(entities)
BulkSave(entities) ==
    /\ Cardinality({u.id : u \in Stored} \cup {entities[i].id : i \in 1..Len(entities)})
          <= MaxRecords
    /\ mem' = IF backend = "memory" THEN MemBulkSaved(entities) ELSE mem
    /\ db' = IF backend = "sql" THEN SqlBulkSaved(entities) ELSE db
    /\ last' = Call("bulk_save", [entities |-> entities, before |-> Stored],
                    RepoBulkSave(entities))
    /\ UNCHANGED <<held, org_db, running, backend, now, tz, tokens, issued>>

\* user_repo.bulk_delete(filters)
BulkDelete(filters) ==
    /\ mem' = IF backend = "memory" THEN MemBulkDeleted(filters) ELSE mem
    /\ db' = IF backend = "sql" THEN SqlBulkDeleted(filters) ELSE db
    /\ last' = Call("bulk_delete", [filters |-> filters, before |-> Stored,
                                    store |-> [mem |-> mem, db |-> db]],
                    RepoBulkDelete(filters))
    /\ UNCHANGED <<held, org_db, running, backend, now, tz, tokens, issued>>

\* UserStatus.__members__ and UserStatus[name]
UserStatusMembers == {"ACTIVE", "INACTIVE", "SUSPENDED"}
UserStatusNamed(name) ==
    IF name = "ACTIVE" THEN ACTIVE
    ELSE IF name = "INACTIVE" THEN INACTIVE
    ELSE SUSPENDED

\* the status arguments of list_users: None, names of members, and a member's value
StatusArgs == {{}, {"ACTIVE"}, {"INACTIVE"}, {"active"}}

\* list_users: query_filter = {"organization_id": org_id}, plus "status" when given
query_filter(org_id, status) ==
    {Item("organization_id", FScalar(org_id))}
        \cup {Item("status", FScalar(UserStatusNamed(s))) : s \in status}

\* list_users(org_id, limit, offset, status): users = list_all(limit, offset, filters),
\* total = user_repo.count(); the outcomes the repository in use may give
list_users(org_id, limit, offset, status) ==
    IF \E s \in status : s \notin UserStatusMembers THEN {Raise(ValidationError)}
    ELSE {IF Returned(users) THEN Ok([users |-> Value(users), total |-> RepoCount])
          ELSE users :
              users \in RepoListAll(limit, offset, {}, query_filter(org_id, status))}

\* user_service.list_users(org_id, limit, offset, status)
ListUsers(org_id, limit, offset, status) ==
    /\ \E out \in list_users(org_id, limit, offset, status) :
            last' = Call("list_users",
                         [org_id |-> org_id, limit |-> limit, offset |-> offset,
                          status |-> status],
                         out)
    /\ UNCHANGED <<held, org_db, running, backend, mem, db, now, tz, tokens, issued>>

\* user_service.create_user(email_address, plain_password, organization_id, status);
\* id is the uuid4 the new User gets
Register(id, email_address, plain_password, organization_id, status) ==
    /\ id \notin {u.id : u \in Stored}
    /\ LET checked == CreateUserChecks(id, email_address, plain_password,
                                       organization_id, status)
       IN  /\ mem' = IF backend = "memory" /\ Returned(checked)
                     THEN MemSaved(Value(checked)) ELSE mem
           /\ db' = IF backend = "sql" /\ Returned(checked)
                    THEN SqlSaved(Value(checked)) ELSE db
    /\ last' = Call("create_user",
                    [email |-> email_address, password |-> plain_password,
                     organization_id |-> organization_id, before |-> Stored],
                    CreateUser(id, email_address, plain_password, organization_id, status))
    /\ UNCHANGED <<held, org_db, running, backend, now, tz, tokens, issued>>

RepoNext ==
    \/ \E entity \in NewUsers : SaveUpTo(entity, MaxRecords)
    \/ \E id \in Ids : Delete(id)
    \/ ExternalWriteUpTo(MaxRecords)
    \/ \E filters \in FilterMaps : FindOne(filters)
    \/ \E filters \in FilterMaps : Exists(filters)
    \/ \E limit \in Limits, offset \in Offsets, sort_by \in SortKeys, filters \in FilterMaps :
            ListAll(limit, offset, sort_by, filters)
    \/ \E filters \in FilterMaps : Count(filters)
    \/ \E entities \in BulkLists : BulkSave(entities)
    \/ \E filters \in BulkDeleteMaps : BulkDelete(filters)
    \/ \E org_id \in Orgs, limit \in Limits, offset \in Offsets, status \in StatusArgs :
            ListUsers(org_id, limit, offset, status)
    \/ \E id \in Ids, email \in EmailStrings, password \in Secrets, org \in Orgs :
            Register(id, email, password, org, ACTIVE)

SpecRepo == RepoInit /\ [][RepoNext]_vars

(***************************************************************************)
(* Paging through the volatile store: list_all(limit, 0), list_all(limit,  *)
(* limit), ... with no write in between.                                   *)
(***************************************************************************)
PageIds == {"p1", "p2", "p3", "p4", "p5"}
PagedUsers == {User(i, [local |-> "alice", domain |-> "example.com"], "o1",
                    Hash("Secret123!"), ACTIVE, {}) : i \in PageIds}
PageLimits == 1..MaxLimit

PagesInit ==
    /\ backend = "memory"
    /\ mem = <<>>
    /\ db = {}
    /\ now = 0
    /\ tz = 0
    /\ tokens = {}
    /\ issued = {}
    /\ last = Call("init", <<>>, OkNone)
    /\ running = <<>>
    /\ org_db = {}
    /\ held = <<>>

\* whether the last call was a page of a listing with this limit that may go on
Paging(limit) ==
    /\ last.op = "list_pages"
    /\ last.arg.limit = limit
    /\ last.arg.offset + limit < Len(mem)

\* the next page of a listing: user_repo.list_all(limit=limit, offset=offset), where
\* offset is 0 for the first page and the previous offset + limit after it; read is what
\* the pages so far returned, one after the other
ListNextPage(limit) ==
    /\ LET offset == IF Paging(limit) THEN last.arg.offset + limit ELSE 0
           out == MemListAll(limit, offset, {}, {})
       IN  last' = Call("list_pages",
                        [limit |-> limit, offset |-> offset,
                         read |-> IF Paging(limit) THEN last.arg.read \o Value(out)
                                  ELSE Value(out)],
                        out)
    /\ UNCHANGED <<held, org_db, running, backend, mem, db, now, tz, tokens, issued>>

PagesNext ==
    \/ \E entity \in PagedUsers : SaveUpTo(entity, Cardinality(PageIds))
    \/ \E id \in PageIds : Delete(id)
    \/ \E limit \in PageLimits : ListNextPage(limit)

SpecPages == PagesInit /\ [][PagesNext]_vars

(***************************************************************************)
(* The relational repository of organizations, called one call at a time   *)
(***************************************************************************)
OrgNames == {"Acme", "Bolt"}
OrgDomains == {"acme.com", "bolt.io"}
NewOrganizations ==
    {Organization(i, n, d, 0, 0, st, {}) :
        i \in Ids, n \in OrgNames, d \in OrgDomains, st \in {ACTIVE, PENDING}}
BulkOrganizations == {o \in NewOrganizations : o.status = PENDING}
OrgBulkLists ==
    {<<>>} \cup {<<o>> : o \in BulkOrganizations}
           \cup {<<o, q>> : o, q \in BulkOrganizations}
OrgFilterMaps ==
    {{},
     {Item("status", FScalar(PENDING))},
     {Item("status", FList({ACTIVE, PENDING}))},
     {Item("name", FScalar("Acme"))}}

OrgInit ==
    /\ backend = "sql"
    /\ mem = <<>>
    /\ db = {}
    /\ now = 0
    /\ tz = 0
    /\ tokens = {}
    /\ issued = {}
    /\ last = Call("init", <<>>, OkNone)
    /\ running = <<>>
    /\ org_db = {}
    /\ held = <<>>

\* org_repo.save(entity)
SaveOrganization(entity, fault) ==
    /\ org_db' = OrgSaved(entity, fault)
    /\ last' = Call("org_save", [entity |-> entity, fault |-> fault, before |-> org_db],
                    OrgSave(entity, fault))
    /\ UNCHANGED <<held, running, backend, mem, db, now, tz, tokens, issued>>

\* org_repo.bulk_save(entities)
BulkSaveOrganizations(entities, fault) ==
    /\ org_db' = OrgBulkSaved(entities, fault)
    /\ last' = Call("org_bulk_save",
                    [entities |-> entities, fault |-> fault, before |-> org_db],
                    OrgBulkSave(entities, fault))
    /\ UNCHANGED <<held, running, backend, mem, db, now, tz, tokens, issued>>

\* org_repo.delete(id)
DeleteOrganization(id, fault) ==
    /\ org_db' = OrgDeleted(id, fault)
    /\ last' = Call("org_delete", [id |-> id, fault |-> fault, before |-> org_db],
                    OrgDelete(id, fault))
    /\ UNCHANGED <<held, running, backend, mem, db, now, tz, tokens, issued>>

\* org_repo.bulk_delete(filters)
BulkDeleteOrganizations(filters, fault) ==
    /\ org_db' = OrgBulkDeleted(filters, fault)
    /\ last' = Call("org_bulk_delete",
                    [filters |-> filters, fault |-> fault, before |-> org_db],
                    OrgBulkDelete(filters, fault))
    /\ UNCHANGED <<held, running, backend, mem, db, now, tz, tokens, issued>>

OrgNext ==
    \/ \E entity \in NewOrganizations, fault \in Faults : SaveOrganization(entity, fault)
    \/ \E entities \in OrgBulkLists, fault \in Faults \ {"refresh"} :
            BulkSaveOrganizations(entities, fault)
    \/ \E id \in Ids, fault \in Faults \ {"refresh"} : DeleteOrganization(id, fault)
    \/ \E filters \in OrgFilterMaps, fault \in Faults \ {"refresh"} :
            BulkDeleteOrganizations(filters, fault)

SpecOrg == OrgInit /\ [][OrgNext]_vars

(***************************************************************************)
(* The volatile store shared by threads.  A thread switch can fall between *)
(* any two bytecodes, so bulk_save is one step per dict store and find_one *)
(* one step per item of its iteration over self._storage.values();         *)
(* list_all copies the values in one call, list(self._storage.values()).   *)
(***************************************************************************)
Writers == {"w1", "w2"}
Readers == {"r"}
ThreadUser(id, status) ==
    User(id, [local |-> "alice", domain |-> "example.com"], "o1", Hash("Secret123!"),
         status, {})
ThreadLists ==
    {<<ThreadUser("id-1", ACTIVE), ThreadUser("id-2", ACTIVE)>>,
     <<ThreadUser("id-1", INACTIVE), ThreadUser("id-2", INACTIVE)>>,
     <<ThreadUser("id-2", INACTIVE)>>}
ThreadFilters == {{Item("status", FScalar(INACTIVE))}, {Item("id", FScalar("id-2"))}}

InFlight == DOMAIN running
Started(t, call) == [x \in InFlight \cup {t} |-> IF x = t THEN call ELSE running[x]]
Finished(t) ==
    IF InFlight = {t} THEN <<>> ELSE [x \in InFlight \ {t} |-> running[x]]

ThreadsInit ==
    /\ backend = "memory"
    /\ mem = <<>>
    /\ db = {}
    /\ now = 0
    /\ tz = 0
    /\ tokens = {}
    /\ issued = {}
    /\ last = Call("init", <<>>, OkNone)
    /\ running = <<>>
    /\ org_db = {}
    /\ held = <<>>

\* a thread enters bulk_save(entities); alone: no other writer has been in a call
\* since this one was entered
BeginBulkSave(t, entities) ==
    /\ t \notin InFlight
    /\ running' = [x \in InFlight \cup {t} |->
                     IF x = t
                     THEN [op |-> "bulk_save", entities |-> entities, done |-> 0,
                           before |-> mem, alone |-> InFlight \cap Writers = {}]
                     ELSE IF x \in Writers THEN [running[x] EXCEPT !.alone = FALSE]
                     ELSE running[x]]
    /\ UNCHANGED <<held, org_db, backend, mem, db, now, tz, tokens, issued, last>>

\* for entity in entities: self._storage[self._get_id(entity)] = entity
StoreNext(t) ==
    /\ t \in InFlight
    /\ running[t].op = "bulk_save"
    /\ running[t].done < Len(running[t].entities)
    /\ mem' = MemSaved(running[t].entities[running[t].done + 1])
    /\ running' = [running EXCEPT ![t].done = @ + 1]
    /\ UNCHANGED <<held, org_db, backend, db, now, tz, tokens, issued, last>>

\* return entities
EndBulkSave(t) ==
    /\ t \in InFlight
    /\ running[t].op = "bulk_save"
    /\ running[t].done = Len(running[t].entities)
    /\ running' = Finished(t)
    /\ last' = Call("bulk_save", [thread |-> t, entities |-> running[t].entities],
                    Ok(running[t].entities))
    /\ UNCHANGED <<held, org_db, backend, mem, db, now, tz, tokens, issued>>

\* list_all() by a thread that is in no other call
ThreadListAll(t) ==
    /\ t \notin InFlight
    /\ last' = Call("list_all",
                    [thread |-> t,
                     writes |-> {running[w] : w \in InFlight \cap Writers}],
                    MemListAll(Cardinality(Ids), 0, {}, {}))
    /\ UNCHANGED <<held, org_db, running, backend, mem, db, now, tz, tokens, issued>>

\* find_one(filters): `for entity in self._storage.values()` makes the iterator, which
\* remembers the size of the dict
BeginFindOne(t, filters) ==
    /\ t \notin InFlight
    /\ running' = Started(t, [op |-> "find_one", filters |-> filters,
                              size |-> Len(mem), pos |-> 0])
    /\ UNCHANGED <<held, org_db, backend, mem, db, now, tz, tokens, issued, last>>

\* one turn of the loop: next() raises RuntimeError (dictionary changed size during
\* iteration) when the dict has another size than when the iterator was made
FindOneNext(t) ==
    /\ t \in InFlight
    /\ running[t].op = "find_one"
    /\ LET call == running[t]
           arg == [thread |-> t, filters |-> call.filters]
       IN  IF Len(mem) # call.size
           THEN /\ running' = Finished(t)
                /\ last' = Call("find_one", arg, Raise("RuntimeError"))
           ELSE IF call.pos = call.size
           THEN /\ running' = Finished(t)
                /\ last' = Call("find_one", arg, OkNone)
           ELSE IF MemMatches(mem[call.pos + 1], call.filters)
           THEN /\ running' = Finished(t)
                /\ last' = Call("find_one", arg, Ok(mem[call.pos + 1]))
           ELSE /\ running' = [running EXCEPT ![t].pos = @ + 1]
                /\ last' = last
    /\ UNCHANGED <<held, org_db, backend, mem, db, now, tz, tokens, issued>>

ThreadsNext ==
    \/ \E t \in Writers, entities \in ThreadLists : BeginBulkSave(t, entities)
    \/ \E t \in Writers : StoreNext(t)
    \/ \E t \in Writers : EndBulkSave(t)
    \/ \E t \in Readers : ThreadListAll(t)
    \/ \E t \in Readers, filters \in ThreadFilters : BeginFindOne(t, filters)
    \/ \E t \in Readers : FindOneNext(t)

SpecThreads == ThreadsInit /\ [][ThreadsNext]_vars

(***************************************************************************)
(* The conversions of the three relational repositories, applied to        *)
(* entities on their own: _to_entity(_to_model(e)).  A dict or a list is    *)
(* modelled by the set or the sequence of its keys or elements.            *)
(***************************************************************************)
MappedOrganizations ==
    {Organization(i, "Acme", "acme.com", 0, 0, st, m) :
        i \in Ids, st \in OrganizationStatus, m \in {{}, {"tier"}}}
MappedMerchants ==
    {Merchant(i, "o1", "Shop", d, "ZM", "ZMW", 0, 0, st, pm, <<>>, m) :
        i \in Ids, d \in {{}, {"A shop"}}, st \in {ACTIVE, UNDER_REVIEW},
        pm \in {<<>>, <<"card">>}, m \in {{}, {"tier"}}}

MappingInit ==
    /\ backend = "sql"
    /\ mem = <<>>
    /\ db = {}
    /\ now = 0
    /\ tz = 0
    /\ tokens = {}
    /\ issued = {}
    /\ last = Call("init", <<>>, OkNone)
    /\ running = <<>>
    /\ org_db = {}
    /\ held = <<>>

\* SQLModelUserRepository: self._to_entity(self._to_model(user))
UserRoundTrip(user) ==
    /\ last' = Call("user_round_trip", [entity |-> user],
                    IF Returned(_to_model(user)) THEN Ok(_to_entity(Value(_to_model(user))))
                    ELSE _to_model(user))
    /\ UNCHANGED <<held, org_db, running, backend, mem, db, now, tz, tokens, issued>>

\* SQLModelOrganizationRepository: self._to_entity(self._to_model(organization))
OrganizationRoundTrip(organization) ==
    /\ last' = Call("organization_round_trip", [entity |-> organization],
                    Ok(Organization_to_entity(Organization_to_model(organization))))
    /\ UNCHANGED <<held, org_db, running, backend, mem, db, now, tz, tokens, issued>>

\* SQLModelMerchantRepository: self._to_entity(self._to_model(merchant))
MerchantRoundTrip(merchant) ==
    /\ last' = Call("merchant_round_trip", [entity |-> merchant],
                    Ok(Merchant_to_entity(Merchant_to_model(merchant))))
    /\ UNCHANGED <<held, org_db, running, backend, mem, db, now, tz, tokens, issued>>

MappingNext ==
    \/ Tick
    \/ \E user \in NewUsers : UserRoundTrip(user)
    \/ \E organization \in MappedOrganizations : OrganizationRoundTrip(organization)
    \/ \E merchant \in MappedMerchants : MerchantRoundTrip(merchant)

SpecMapping == MappingInit /\ [][MappingNext]_vars

(***************************************************************************)
(* Two requests registering at the same time on the relational backend,    *)
(* each with a session of its own.  create_user is two steps: everything up *)
(* to the find_one check, then the save.                                    *)
(***************************************************************************)
Requests == {"q1", "q2"}
\* the uuid4 each request's User would get
RequestId(q) == IF q = "q1" THEN "id-1" ELSE "id-2"

RaceInit ==
    /\ backend = "sql"
    /\ mem = <<>>
    /\ db = {}
    /\ now = 0
    /\ tz = 0
    /\ tokens = {}
    /\ issued = {}
    /\ last = Call("init", <<>>, OkNone)
    /\ running = <<>>
    /\ org_db = {}
    /\ held = <<>>

\* a request enters user_service.create_user(email_address, plain_password, "o1")
BeginCreateUser(q, email_address, plain_password) ==
    /\ q \notin InFlight
    /\ running' = Started(q, [op |-> "create_user", email |-> email_address,
                              password |-> plain_password, organization_id |-> "o1",
                              pc |-> "check", user |-> {}, out |-> OkNone])
    /\ UNCHANGED <<held, org_db, backend, mem, db, now, tz, tokens, issued, last>>

\* the request's next step: the checks, which end the call when they raise, or the save
CreateUserNext(q) ==
    /\ q \in InFlight
    /\ running[q].pc # "done"
    /\ LET call == running[q]
           checked == CreateUserChecks(RequestId(q), call.email, call.password,
                                       call.organization_id, ACTIVE)
           saved == IF call.user = {} THEN OkNone ELSE RepoSave(Value([ret |-> call.user]))
       IN  IF call.pc = "check"
           THEN /\ db' = db
                /\ IF Returned(checked)
                   THEN /\ running' = [running EXCEPT ![q].pc = "save",
                                                      ![q].user = checked.ret]
                        /\ last' = last
                   ELSE /\ running' = [running EXCEPT ![q].pc = "done", ![q].out = checked]
                        /\ last' = Call("create_user", [request |-> q], checked)
           ELSE /\ db' = SqlSaved(Value([ret |-> call.user]))
                /\ running' = [running EXCEPT ![q].pc = "done",
                                   ![q].out = IF Returned(saved) THEN Ok(Value([ret |-> call.user]))
                                              ELSE saved]
                /\ last' = Call("create_user", [request |-> q],
                                IF Returned(saved) THEN Ok(Value([ret |-> call.user]))
                                ELSE saved)
    /\ UNCHANGED <<held, org_db, backend, mem, now, tz, tokens, issued>>

RaceNext ==
    \/ \E q \in Requests, email_address \in EmailStrings, plain_password \in Secrets :
            BeginCreateUser(q, email_address, plain_password)
    \/ \E q \in Requests : CreateUserNext(q)

SpecRace == RaceInit /\ [][RaceNext]_vars

(***************************************************************************)
(* The Credential Hasher on its own: Argon2PasswordHasher over passlib.    *)
(* A hash string is its scheme, its salt and its checksum; the checksum of  *)
(* a password under a salt is modelled by the pair itself (no collisions).  *)
(* held is the set of the calls of hash() that returned: [password, salt,   *)
(* hash].                                                                   *)
(***************************************************************************)
Salts == {"salt-1", "salt-2"}
Passwords == Secrets \cup {""}
\* a string that is no hash of any scheme, and the empty string
NotAHash == [scheme |-> "none", salt |-> "", checksum |-> <<>>]
EmptyHash == [scheme |-> "", salt |-> "", checksum |-> <<>>]

Digest(password, salt) == <<salt, password>>

\* pwd_context.hash(password) with the salt the generator drew
Argon2Hash_SaltIgnored(password, salt) ==
    IF password = "" THEN Raise("ValueError")
    ELSE Ok([scheme |-> "argon2id", salt |-> "salt-1",
             checksum |-> Digest(password, "salt-1")])

Argon2Hash(password, salt) ==
    IF password = "" THEN Raise("ValueError")
    ELSE Ok([scheme |-> "argon2id", salt |-> salt, checksum |-> Digest(password, salt)])

\* pwd_context.verify: the string is parsed, the checksum of plain_password under the
\* salt of the string is computed and compared
Argon2Verify(plain_password, hashed_password) ==
    IF plain_password = "" \/ hashed_password = EmptyHash THEN Raise("ValueError")
    ELSE IF hashed_password = NotAHash THEN Raise("UnknownHashError")
    ELSE Ok(hashed_password.checksum = Digest(plain_password, hashed_password.salt))

HasherInit ==
    /\ backend = "memory"
    /\ mem = <<>>
    /\ db = {}
    /\ now = 0
    /\ tz = 0
    /\ tokens = {}
    /\ issued = {}
    /\ last = Call("init", <<>>, OkNone)
    /\ running = <<>>
    /\ org_db = {}
    /\ held = {}

\* hasher.hash(password); salt is what the random generator returns in this call
HashPassword(password, salt) ==
    /\ held' = IF Returned(Argon2Hash(password, salt))
               THEN held \cup {[password |-> password, salt |-> salt,
                                hash |-> Value(Argon2Hash(password, salt))]}
               ELSE held
    /\ last' = Call("hash", [password |-> password, salt |-> salt],
                    Argon2Hash(password, salt))
    /\ UNCHANGED <<org_db, running, backend, mem, db, now, tz, tokens, issued>>

\* hasher.verify(plain_password, hashed_password) with a string hash() returned for the
\* password `of`
VerifyPassword(plain_password, call) ==
    /\ last' = Call("verify",
                    [plain_password |-> plain_password, hashed_password |-> call.hash,
                     of |-> call.password],
                    Argon2Verify(plain_password, call.hash))
    /\ UNCHANGED <<held, org_db, running, backend, mem, db, now, tz, tokens, issued>>

\* hasher.verify with a string that is no hash
VerifyNotAHash(plain_password) ==
    /\ last' = Call("verify_other",
                    [plain_password |-> plain_password, hashed_password |-> NotAHash],
                    Argon2Verify(plain_password, NotAHash))
    /\ UNCHANGED <<held, org_db, running, backend, mem, db, now, tz, tokens, issued>>

HasherNext ==
    \/ \E password \in Passwords, salt \in Salts : HashPassword(password, salt)
    \/ \E plain_password \in Passwords, call \in held : VerifyPassword(plain_password, call)
    \/ \E plain_password \in Passwords : VerifyNotAHash(plain_password)

SpecHasher == HasherInit /\ [][HasherNext]_vars

(***************************************************************************)
(* A Merchant entity and its payment methods.  held is the Merchant object. *)
(***************************************************************************)
Methods == {"stripe", "Stripe", "paypal"}
MethodLower(method) == IF method = "Stripe" THEN "stripe" ELSE method

Contains(list, x) == \E i \in 1..Len(list) : list[i] = x

\* list.remove(x): the first occurrence goes
Removed(list, x) ==
    LET first == CHOOSE i \in 1..Len(list) : list[i] = x /\ \A j \in 1..(i - 1) : list[j] # x
    IN  [i \in 1..(Len(list) - 1) |-> IF i < first THEN list[i] ELSE list[i + 1]]

\* add_payment_method: `method in self.payment_methods`, append(method.lower()), updated_at
add_payment_method(merchant, method) ==
    IF Contains(merchant.payment_methods, method) THEN Raise("ValueError") ELSE OkNone

AfterAddPaymentMethod(merchant, method) ==
    IF Contains(merchant.payment_methods, method) THEN merchant
    ELSE [merchant EXCEPT !.payment_methods = Append(@, MethodLower(method)),
                          !.updated_at = LocalNow]

\* remove_payment_method: `method not in self.payment_methods`, remove(method.lower()),
\* updated_at
remove_payment_method(merchant, method) ==
    IF ~Contains(merchant.payment_methods, method) THEN Raise("ValueError")
    ELSE IF ~Contains(merchant.payment_methods, MethodLower(method)) THEN Raise("ValueError")
    ELSE OkNone

AfterRemovePaymentMethod(merchant, method) ==
    IF Returned(remove_payment_method(merchant, method))
    THEN [merchant EXCEPT !.payment_methods = Removed(@, MethodLower(method)),
                          !.updated_at = LocalNow]
    ELSE merchant

MerchantInit ==
    /\ backend = "memory"
    /\ mem = <<>>
    /\ db = {}
    /\ now = 0
    /\ tz = 0
    /\ tokens = {}
    /\ issued = {}
    /\ last = Call("init", <<>>, OkNone)
    /\ running = <<>>
    /\ org_db = {}
    /\ held = Merchant("id-1", "o1", "Shop", {}, "ZM", "ZMW", 0, 0, UNDER_REVIEW, <<>>, <<>>, {})

\* merchant.add_payment_method(method); the model follows lists of up to MaxMethods entries
AddPaymentMethod(method) ==
    /\ Len(held.payment_methods) < MaxMethods
    /\ held' = AfterAddPaymentMethod(held, method)
    /\ last' = Call("add_payment_method", [method |-> method, before |-> held],
                    add_payment_method(held, method))
    /\ UNCHANGED <<org_db, running, backend, mem, db, now, tz, tokens, issued>>

\* merchant.remove_payment_method(method)
RemovePaymentMethod(method) ==
    /\ held' = AfterRemovePaymentMethod(held, method)
    /\ last' = Call("remove_payment_method", [method |-> method, before |-> held],
                    remove_payment_method(held, method))
    /\ UNCHANGED <<org_db, running, backend, mem, db, now, tz, tokens, issued>>

MerchantNext ==
    \/ Tick
    \/ \E method \in Methods : AddPaymentMethod(method)
    \/ \E method \in Methods : RemovePaymentMethod(method)

SpecMerchant == MerchantInit /\ [][MerchantNext]_vars

(***************************************************************************)
(* Session resolution on the relational backend while the status of the    *)
(* same principal is changed.  get_logged_in_user is two steps: the checks, *)
(* which read the principal, then the update_login_time call.  held is the  *)
(* last committed status change.                                            *)
(***************************************************************************)
LoginInit ==
    /\ backend = "sql"
    /\ mem = <<>>
    /\ db = {}
    /\ now = 0
    /\ tz = 0
    /\ tokens = {}
    /\ issued = {}
    /\ last = Call("init", <<>>, OkNone)
    /\ running = <<>>
    /\ org_db = {}
    /\ held = <<>>

\* the accounts_users row of a principal is there before any request (seed data)
SeedRow(row) ==
    /\ db = {}
    /\ db' = {row}
    /\ UNCHANGED <<held, org_db, running, backend, mem, now, tz, tokens, issued, last>>

\* a request enters auth_service.get_logged_in_user(token): decode, get_by_email, the id
\* and status checks
BeginResolveSession(q, token) ==
    /\ IF q \in InFlight THEN running[q].pc = "done" ELSE TRUE
    /\ LET checked == ResolveChecks(token)
       IN  IF Returned(checked)
           THEN /\ running' = Started(q, [op |-> "get_logged_in_user", pc |-> "update",
                                          user |-> checked.ret, out |-> OkNone])
                /\ last' = last
           ELSE /\ running' = Started(q, [op |-> "get_logged_in_user", pc |-> "done",
                                          user |-> {}, out |-> checked])
                /\ last' = Call("get_logged_in_user", [request |-> q], checked)
    /\ UNCHANGED <<held, org_db, backend, mem, db, now, tz, tokens, issued>>

\* the request's second step: self.user_repo.update_login_time(user.id); return user
ResolveSessionNext(q) ==
    /\ q \in InFlight
    /\ running[q].pc = "update"
    /\ LET user == Value([ret |-> running[q].user])
           updated == RepoUpdateLoginTime(user.id)
       IN  /\ db' = SqlAfterUpdateLoginTimeCall(user.id)
           /\ running' = [running EXCEPT ![q].pc = "done",
                              ![q].out = IF Returned(updated) THEN Ok(user) ELSE updated]
           /\ last' = Call("get_logged_in_user", [request |-> q],
                           IF Returned(updated) THEN Ok(user) ELSE updated)
    /\ UNCHANGED <<held, org_db, backend, mem, now, tz, tokens, issued>>

\* a status change of a stored principal is committed: UPDATE accounts_users SET status
\* in a session of its own.  during: the requests that were between their two steps
CommitStatusChange(id, status) ==
    /\ \E r \in db : r.id = id /\ r.status # status
    /\ db' = {IF r.id = id THEN [r EXCEPT !.status = status] ELSE r : r \in db}
    /\ held' = [id |-> id, status |-> status,
                during |-> {q \in InFlight : running[q].pc = "update"}]
    /\ last' = Call("commit_status", [id |-> id, status |-> status], OkNone)
    /\ UNCHANGED <<org_db, running, backend, mem, now, tz, tokens, issued>>

LoginNext ==
    \/ Tick
    \/ \E row \in NewRows : SeedRow(row)
    \/ \E id \in Ids : CreateAccessToken(id)
    \/ \E id \in Ids, status \in UserStatus : ChangeStatus(id, status)
    \/ \E id \in Ids, status \in UserStatus : CommitStatusChange(id, status)
    \/ \E q \in Requests, token \in tokens : BeginResolveSession(q, token)
    \/ \E q \in Requests : ResolveSessionNext(q)

SpecLogin == LoginInit /\ [][LoginNext]_vars

(***************************************************************************)
(* Entity objects and the volatile backend.  _storage[id] = entity keeps    *)
(* the object it was given and get / find_one return the object that is    *)
(* kept.  held maps each variable of the calling code to the User object    *)
(* it refers to; stored tells whether that object is the one in _storage.   *)
(***************************************************************************)
Objects == {"a", "b"}
StatusMethods == {"activate", "deactivate", "suspend"}
StatusAfter(method) ==
    IF method = "activate" THEN ACTIVE
    ELSE IF method = "deactivate" THEN INACTIVE
    ELSE SUSPENDED

Bound(o, object) == [x \in DOMAIN held \cup {o} |-> IF x = o THEN object ELSE held[x]]
SameObject(x, o) ==
    /\ held[x].stored
    /\ held[o].stored
    /\ held[x].user.id = held[o].user.id

\* the users the calling code constructs, and the filter maps it looks them up with
AliasUsers ==
    {User(i, validate_and_normalize_email([local |-> "alice", domain |-> "example.com"]),
          "o1", Hash("Secret123!"), ACTIVE, {}) : i \in Ids}
AliasFilters == {{Item("status", FScalar(s))} : s \in {ACTIVE, INACTIVE}}

AliasInit ==
    /\ backend = "memory"
    /\ mem = <<>>
    /\ db = {}
    /\ now = 0
    /\ tz = 0
    /\ tokens = {}
    /\ issued = {}
    /\ last = Call("init", <<>>, OkNone)
    /\ running = <<>>
    /\ org_db = {}
    /\ held = <<>>

\* o = User(...)
ConstructUser(o, entity) ==
    /\ held' = Bound(o, [user |-> entity, stored |-> FALSE])
    /\ last' = Call("User", [object |-> o], OkNone)
    /\ UNCHANGED <<org_db, running, backend, mem, db, now, tz, tokens, issued>>

\* repo.save(o): _storage[o.id] = o
SaveObject(o) ==
    /\ o \in DOMAIN held
    /\ mem' = MemSaved(held[o].user)
    /\ held' = [x \in DOMAIN held |->
                   IF x = o THEN [held[x] EXCEPT !.stored = TRUE]
                   ELSE IF held[x].user.id = held[o].user.id
                   THEN [held[x] EXCEPT !.stored = SameObject(x, o)]
                   ELSE held[x]]
    /\ last' = Call("save", [object |-> o, before |-> mem], MemSave(held[o].user))
    /\ UNCHANGED <<org_db, running, backend, db, now, tz, tokens, issued>>

\* o = repo.get(id)
GetObject(o, id) ==
    /\ held' = IF Returned(MemGet(id))
               THEN Bound(o, [user |-> Value(MemGet(id)), stored |-> TRUE])
               ELSE held
    /\ last' = Call("get", [object |-> o, id |-> id, before |-> mem], MemGet(id))
    /\ UNCHANGED <<org_db, running, backend, mem, db, now, tz, tokens, issued>>

\* o = repo.find_one(filters), kept when an entity was found
FindOneObject(o, filters) ==
    /\ held' = IF Returned(MemFindOne(filters)) /\ MemFindOne(filters).ret # {}
               THEN Bound(o, [user |-> Value(MemFindOne(filters)), stored |-> TRUE])
               ELSE held
    /\ last' = Call("find_one", [object |-> o, filters |-> filters, before |-> mem],
                    MemFindOne(filters))
    /\ UNCHANGED <<org_db, running, backend, mem, db, now, tz, tokens, issued>>

\* o.activate() / o.deactivate() / o.suspend(): self.status = ...
CallStatusMethod(o, method) ==
    /\ o \in DOMAIN held
    /\ LET user == [held[o].user EXCEPT !.status = StatusAfter(method)]
       IN  /\ mem' = IF held[o].stored THEN MemSaved(user) ELSE mem
           /\ held' = [x \in DOMAIN held |->
                          IF x = o \/ SameObject(x, o)
                          THEN [held[x] EXCEPT !.user = user]
                          ELSE held[x]]
    /\ last' = Call(method, [object |-> o, before |-> mem], OkNone)
    /\ UNCHANGED <<org_db, running, backend, db, now, tz, tokens, issued>>

\* repo.delete(id): del _storage[id]
DeleteStored(id) ==
    /\ mem' = MemDeleted(id)
    /\ held' = [x \in DOMAIN held |->
                   IF held[x].user.id = id /\ Returned(MemDelete(id))
                   THEN [held[x] EXCEPT !.stored = FALSE]
                   ELSE held[x]]
    /\ last' = Call("delete", [id |-> id, before |-> mem], MemDelete(id))
    /\ UNCHANGED <<org_db, running, backend, db, now, tz, tokens, issued>>

AliasNext ==
    \/ \E o \in Objects, entity \in AliasUsers : ConstructUser(o, entity)
    \/ \E o \in Objects : SaveObject(o)
    \/ \E o \in Objects, id \in Ids : GetObject(o, id)
    \/ \E o \in Objects, filters \in AliasFilters : FindOneObject(o, filters)
    \/ \E o \in Objects, method \in StatusMethods : CallStatusMethod(o, method)
    \/ \E id \in Ids : DeleteStored(id)

SpecAlias == AliasInit /\ [][AliasNext]_vars

(***************************************************************************)
(* Properties                                                              *)
(***************************************************************************)
\* the stored principals whose email is the given normalized email
StoredUnder(email) == {u \in Stored : u.email = email}

IsAuthenticate == last.op = "authenticate_user"
IsResolve == last.op = "get_logged_in_user"
IsDecode == last.op = "decode_token"
IsRefresh == last.op = "refresh_token"
IsSave == last.op = "save"

\* a token string that decodes now: signature valid and expiration not reached
TimeValid(token) == token.form = "signed" /\ token.exp > now

\* C1: authenticate_user(email, secret), for an email in normalized form, fails with
\* UserNotFoundError when no principal is stored under the email; otherwise with
\* AuthenticationError when the secret does not verify against the stored hash, whatever
\* the status; otherwise with InactiveUserError when the stored status is not active;
\* and it returns the stored principal only when all three checks pass.
C1_AuthenticateOrder ==
    (IsAuthenticate /\ last.arg.email \in Emails) =>
        LET under == StoredUnder(last.arg.email)
        IN  IF under = {} THEN last.out.exc = "UserNotFoundError"
            ELSE \E u \in under :
                    IF ~Verify(last.arg.password, u.hashed_password)
                    THEN last.out.exc = "AuthenticationError"
                    ELSE IF u.status # ACTIVE
                    THEN last.out.exc = "InactiveUserError"
                    ELSE /\ Returned(last.out)
                         /\ last.out.ret # {}
                         /\ Value(last.out).id = u.id
                         /\ Value(last.out).status = u.status

\* C2: when the principal of a token was active at issuance and is stored with a
\* non-active status now, get_logged_in_user on the still time-valid token fails with
\* InactiveUserError and leaves the stored principals, the last-authenticated timestamp
\* included, as they were; on either backend.
C2_DeactivatedAfterIssue ==
    (/\ IsResolve
     /\ last.arg.token \in tokens
     /\ TimeValid(last.arg.token)
     /\ \E i \in issued : i.status = ACTIVE
     /\ \E u \in Stored : /\ u.id = last.arg.token.user_id
                          /\ u.email = last.arg.token.email
                          /\ u.status # ACTIVE)
        => /\ last.out.exc = "InactiveUserError"
           /\ Stored = last.arg.before

\* C3: a token issued at instant T with lifetime d carries the expiration T + d whatever
\* the local time zone; decode_token succeeds on it at every instant before T + d and
\* fails with ExpiredTokenError at every instant after T + d.
C3_ExpiresAtIssuePlusTtl ==
    \A t \in tokens, i \in issued :
        /\ t.exp = i.at + i.ttl
        /\ (IsDecode /\ last.arg.token = t) =>
              /\ now < i.at + i.ttl => Returned(last.out)
              /\ now > i.at + i.ttl => last.out.exc = "ExpiredTokenError"

\* C4: a failing decode_token raises ExpiredTokenError when signature and structure are
\* valid and the expiration has passed, InvalidTokenError when signature or structure is
\* invalid, and nothing else.
C4_TwoFailureKinds ==
    (IsDecode /\ ~Returned(last.out)) =>
        last.out.exc = (IF last.arg.token.form = "signed"
                        THEN "ExpiredTokenError"
                        ELSE "InvalidTokenError")

\* C5: get_logged_in_user on an expired token fails with ExpiredTokenError, on a tampered
\* or malformed token with InvalidTokenError, and in both cases no stored principal is
\* modified.
C5_TokenFailuresPropagate ==
    (IsResolve /\ ~TimeValid(last.arg.token)) =>
        /\ last.out.exc = (IF last.arg.token.form = "signed"
                           THEN "ExpiredTokenError"
                           ELSE "InvalidTokenError")
        /\ Stored = last.arg.before

\* C6: when get_logged_in_user returns, the principal it returns is stored with a
\* last-authenticated timestamp equal to the time of the call, on either backend.
C6_LoginTimeRecorded ==
    (IsResolve /\ Returned(last.out)) =>
        /\ last.out.ret # {}
        /\ \E u \in Stored : /\ u.id = Value(last.out).id
                             /\ u.last_login = {LocalNow}

\* C7: get_logged_in_user never returns a principal whose id differs from the token's
\* user_id; when the token decodes and every principal stored under the token's email has
\* another id, the call fails with the mismatch TokenError and the stored principals are
\* as before.
C7_TokenMismatch ==
    IsResolve =>
        /\ Returned(last.out) =>
              /\ last.out.ret # {}
              /\ Value(last.out).id = last.arg.token.user_id
        /\ (/\ TimeValid(last.arg.token)
            /\ StoredUnder(last.arg.token.email) # {}
            /\ \A u \in StoredUnder(last.arg.token.email) : u.id # last.arg.token.user_id)
              => /\ last.out.exc = "accounts.TokenError"
                 /\ Stored = last.arg.before

\* C8: refresh_token on a valid token, with any expires_delta (the default included),
\* returns a token with the same claims other than exp and a strictly later exp.
C8_RefreshExtends ==
    (IsRefresh /\ TimeValid(last.arg.token)) =>
        /\ Returned(last.out)
        /\ last.out.ret # {}
        /\ Value(last.out).user_id = last.arg.token.user_id
        /\ Value(last.out).email = last.arg.token.email
        /\ Value(last.out).status = last.arg.token.status
        /\ Value(last.out).exp > last.arg.token.exp

\* C9: refresh_token on an expired or invalid token fails with the Token Issuer's
\* TokenError and returns no token.
C9_RefreshOfInvalidFails ==
    (IsRefresh /\ ~TimeValid(last.arg.token)) =>
        /\ last.out.exc = "TokenError"
        /\ last.out.ret = {}

\* C10: save(entity) returns; it leaves count() unchanged when the id was stored and
\* raises it by one when it was not; get(id) afterwards returns the entity saved.
C10_SaveIsUpsert ==
    IsSave =>
        /\ Returned(last.out)
        /\ RepoCount = last.arg.count + (IF last.arg.stored THEN 0 ELSE 1)
        /\ RepoGet(last.arg.entity.id) = Ok(last.arg.entity)

IsDelete == last.op = "delete"

\* C11: delete(id) of a stored id returns True and removes the record, so that get(id)
\* fails with RecordNotFoundError afterwards; delete(id) of an id that is not stored fails
\* with RecordNotFoundError and leaves the store as it was; on either backend.
C11_DeleteContract ==
    IsDelete =>
        IF last.arg.stored
        THEN /\ last.out = Ok(TRUE)
             /\ last.arg.id \notin {u.id : u \in Stored}
             /\ RepoGet(last.arg.id).exc = "RecordNotFoundError"
        ELSE /\ last.out.exc = "RecordNotFoundError"
             /\ Stored = last.arg.before

\* C20: when a principal is stored under the normalized form of the email string given,
\* authenticate_user with the correct secret finds it: the call returns that principal
\* or fails on its status, and never fails at the lookup; on either backend.
C20_LookupByNormalizedEmail ==
    (/\ IsAuthenticate
     /\ last.arg.password = "Secret123!"
     /\ StoredUnder(validate_and_normalize_email(last.arg.email)) # {})
        => \/ /\ Returned(last.out)
              /\ last.out.ret # {}
              /\ Value(last.out).email = validate_and_normalize_email(last.arg.email)
           \/ last.out.exc = "InactiveUserError"

IsFindOne == last.op = "find_one"
IsExists == last.op = "exists"
IsListAll == last.op = "list_all"
IsCount == last.op = "count"
IsCreateUser == last.op = "create_user"

\* C12: find_one and exists called with an empty filter map fail with ValidationError and
\* leave the store as it was; called with a non-empty filter map they return, find_one an
\* entity that is stored or None and exists a boolean, and None and False when nothing is
\* stored; on either backend.
C12_FiltersRequired ==
    /\ ((IsFindOne \/ IsExists) /\ last.arg.filters = {}) =>
          /\ last.out.exc = ValidationError
          /\ Stored = last.arg.before
    /\ (IsFindOne /\ last.arg.filters # {}) =>
          /\ Returned(last.out)
          /\ Stored = last.arg.before
          /\ \A e \in last.out.ret : e.id \in {u.id : u \in Stored}
          /\ Stored = {} => last.out.ret = {}
    /\ (IsExists /\ last.arg.filters # {}) =>
          /\ Returned(last.out)
          /\ Stored = last.arg.before
          /\ last.out.ret \in {{TRUE}, {FALSE}}
          /\ Stored = {} => last.out.ret = {FALSE}

C12_Witness ==
    \/ IsFindOne /\ last.arg.filters = {} /\ last.out.exc = ValidationError /\ Stored # {}
    \/ IsExists /\ last.arg.filters # {} /\ last.out = Ok(FALSE) /\ Stored # {}

\* the filter DSL: a scalar means equality, a list membership, a dict with min / max / like
\* a range or a pattern
DslMatches(u, filters) ==
    \A item \in filters :
        CASE item.value.kind = "scalar" -> u[item.field] \in item.value.vals
          [] item.value.kind = "list" -> u[item.field] \in item.value.vals
          [] OTHER -> /\ \A v \in item.value.min : StrLeq(v, u[item.field])
                      /\ \A v \in item.value.max : StrLeq(u[item.field], v)
                      /\ \A v \in item.value.like : Like(u[item.field], v)

Selected(filters) == {u.id : u \in {v \in Stored : DslMatches(v, filters)}}

\* C14: on either backend list_all, count, find_one and exists select the stored entities
\* that the filter map selects under the filter DSL (scalar: equality, list: membership,
\* dict: range or pattern), hence the same entities on both backends.
C14_SameFilterSemantics ==
    /\ IsCount => last.out = Ok(Cardinality(Selected(last.arg.filters)))
    /\ (IsExists /\ last.arg.filters # {}) => last.out = Ok(Selected(last.arg.filters) # {})
    /\ (IsFindOne /\ last.arg.filters # {}) =>
          /\ Returned(last.out)
          /\ IF Selected(last.arg.filters) = {} THEN last.out.ret = {}
             ELSE last.out.ret # {} /\ Value(last.out).id \in Selected(last.arg.filters)
    /\ (IsListAll /\ last.arg.offset = 0 /\ last.arg.limit >= Cardinality(Stored)) =>
          /\ Returned(last.out)
          /\ last.out.ret # {}
          /\ {Value(last.out)[i].id : i \in 1..Len(Value(last.out))}
                = Selected(last.arg.filters)

\* C18: a registration with an acceptable password whose email (compared ignoring letter
\* case) and organization are those of a stored principal fails with ValidationError and
\* leaves the store as it was;
\* a registration that returns leaves no two stored principals of one organization with
\* emails that are equal ignoring letter case.
C18_UniqueEmailPerOrganization ==
    IsCreateUser =>
        /\ (/\ PasswordOk(last.arg.password)
            /\ \E u \in last.arg.before :
                  /\ u.organization_id = last.arg.organization_id
                  /\ EmailStrLower(u.email) = EmailStrLower(last.arg.email))
              => /\ last.out.exc = ValidationError
                 /\ Stored = last.arg.before
        /\ Returned(last.out) =>
              \A u, v \in Stored :
                  (/\ u.organization_id = v.organization_id
                   /\ EmailStrLower(u.email) = EmailStrLower(v.email)) => u.id = v.id

IsListPages == last.op = "list_pages"

\* C13: on the volatile backend the pages list_all(limit=L, offset=0), list_all(limit=L,
\* offset=L), ... taken with no write in between hold, one after the other, the stored
\* records in insertion order, each exactly once; every page has L records except the
\* last, which has what is left.
C13_PagesPartition ==
    IsListPages =>
        LET n == Len(mem)
            L == last.arg.limit
            offset == last.arg.offset
            read == last.arg.read
        IN  /\ Returned(last.out)
            /\ last.out.ret # {}
            /\ read = SubSeq(mem, 1, Min(offset + L, n))
            /\ \A i, j \in 1..Len(read) : read[i].id = read[j].id => i = j
            /\ Len(Value(last.out)) = (IF offset + L <= n THEN L ELSE n - offset)
            /\ offset + L >= n => read = mem

\* five records listed two at a time: the third page is the last and holds one record
C13_Witness ==
    /\ IsListPages
    /\ Len(mem) = 5
    /\ last.arg.limit = 2
    /\ last.arg.offset = 4
    /\ Len(Value(last.out)) = 1
    /\ last.arg.read = mem

IsOrgMutation == last.op \in {"org_save", "org_bulk_save", "org_delete", "org_bulk_delete"}

\* what a mutating call of the organization repository is to have changed when it returns
OrgCommitted ==
    CASE last.op = "org_save" ->
            org_db = {r \in last.arg.before : r.id # last.arg.entity.id}
                        \cup {Organization_to_model(last.arg.entity)}
      [] last.op = "org_bulk_save" ->
            org_db = last.arg.before
                        \cup {Organization_to_model(last.arg.entities[i]) :
                                 i \in 1..Len(last.arg.entities)}
      [] last.op = "org_delete" ->
            org_db = {r \in last.arg.before : r.id # last.arg.id}
      [] OTHER ->
            org_db = {r \in last.arg.before : ~Org_filter(r, last.arg.filters)}

\* C15: a mutating call on the relational backend (save, bulk_save, delete, bulk_delete,
\* the bulk delete with the filters it requires) either returns with all of its changes
\* committed, or raises RepositoryError with the table exactly as it was before the call.
C15_RelationalCallsAtomic ==
    (IsOrgMutation /\ ~(last.op = "org_bulk_delete" /\ last.arg.filters = {})) =>
        \/ Returned(last.out) /\ OrgCommitted
        \/ last.out.exc = "RepositoryError" /\ org_db = last.arg.before

\* a writer is inside its critical section: it has stored some of its entities, not all
Writing(t) ==
    /\ t \in InFlight \cap Writers
    /\ 0 < running[t].done
    /\ running[t].done < Len(running[t].entities)

\* C16: on the volatile backend the mutating operations of one store are mutually
\* exclusive, and a read that runs while a write is in progress sees the store either
\* as it was before that write or as it is after it, and completes without error.
C16_VolatileStoreSerialized ==
    /\ \A t1, t2 \in Writers : (Writing(t1) /\ Writing(t2)) => t1 = t2
    /\ last.op = "list_all" =>
          \A write \in last.arg.writes :
              write.alone =>
                  \/ last.out.ret = {write.before}
                  \/ last.out.ret = {MemAllSaved(write.before, write.entities)}
    /\ last.op \in {"list_all", "find_one"} => Returned(last.out)

IsRoundTrip ==
    last.op \in {"user_round_trip", "organization_round_trip", "merchant_round_trip"}

\* C17: for the user, organization and merchant repositories and every entity e,
\* _to_entity(_to_model(e)) returns an entity equal to e field for field.
C17_RoundTrip ==
    IsRoundTrip => last.out = Ok(last.arg.entity)

\* both requests have registered the same email, with passwords the rules accept, and
\* both calls are over
BothRegistered ==
    /\ InFlight = Requests
    /\ \A q \in Requests : running[q].op = "create_user" /\ running[q].pc = "done"
    /\ \A q \in Requests : PasswordOk(running[q].password)
    /\ running["q1"].email = running["q2"].email

\* C19: after two concurrent registrations with the same email and organization on the
\* relational backend, at most one principal with that email and organization is
\* stored, and a caller that was rejected got a failure while the principal registered
\* first is stored.
C19_ConcurrentRegistrations ==
    BothRegistered =>
        LET email == validate_and_normalize_email(running["q1"].email)
            taken == {r \in db : r.email = email /\ r.organization_id = "o1"}
        IN  /\ Cardinality(taken) <= 1
            /\ \A q \in Requests : ~Returned(running[q].out) => taken # {}

\* C21: for non-empty secrets, verify(s', hash(s)) is true when s' = s and false when
\* s' # s; two calls of hash(s) that drew different salts return different strings, and
\* each of them verifies against s.
C21_HashVerify ==
    /\ (last.op = "verify" /\ last.arg.plain_password # "") =>
            last.out = Ok(last.arg.plain_password = last.arg.of)
    /\ \A c1, c2 \in held :
            /\ (c1.password = c2.password /\ c1.salt # c2.salt) => c1.hash # c2.hash
            /\ Argon2Verify(c1.password, c1.hash) = Ok(TRUE)

\* both answers of verify have been seen on two different hashes of one secret
C21_Witness ==
    /\ last.op = "verify"
    /\ last.out = Ok(FALSE)
    /\ last.arg.plain_password # ""
    /\ \E c1, c2 \in held :
            /\ c1.password = c2.password
            /\ c1.hash # c2.hash
            /\ c1.password = last.arg.of

\* C22: authenticate_user never changes stored state: after any call, successful or
\* failed, every stored principal, its last-authenticated timestamp included, is what
\* it was before the call.
C22_AuthenticateReadOnly ==
    last.op = "authenticate_user" =>
        /\ mem = last.arg.before.mem
        /\ db = last.arg.before.db

\* a successful authentication of a stored principal
C22_Witness ==
    /\ last.op = "authenticate_user"
    /\ Returned(last.out)
    /\ \E u \in Stored : {u.id} = {v.id : v \in last.out.ret}

\* the stored account a login names
Account(username) == {r \in db : r.email = username}

\* C23: at POST /auth/token a wrong password for an existing account and a correct
\* password for a non-active account get the same response, HTTP 401 with the same
\* invalid-credentials detail.
C23_RejectionsIndistinguishable ==
    (/\ last.op = "oauth_login"
     /\ \E r \in Account(last.arg.username) :
            \/ ~Verify(last.arg.password, r.hashed_password)
            \/ r.status # ACTIVE)
        => last.out = Ok([status_code |-> HTTP_401_UNAUTHORIZED, token |-> {},
                          detail |-> {Detail("AuthenticationError")}])

\* C24: verify_token(t) returns true exactly when decode_token(t) succeeds at the same
\* instant, and returns false, without raising, for expired, tampered and malformed
\* tokens.
C24_VerifyMatchesDecode ==
    last.op = "verify_token" =>
        /\ last.out = Ok(Returned(JwtDecodeToken(last.arg.token)))
        /\ (\/ last.arg.token.form \in {"tampered", "malformed"}
            \/ last.arg.token.exp <= now) => last.out = Ok(FALSE)

\* verify_token has answered false for a properly signed token that has expired
C24_Witness ==
    /\ last.op = "verify_token"
    /\ last.arg.token.form = "signed"
    /\ last.arg.token.exp <= now
    /\ last.out = Ok(FALSE)

\* keys that name no field of UserORM: one that names nothing at all, and one that names
\* an attribute of the table class
UnknownKeys == {Item("shoe_size", FScalar("o1")), Item("metadata", FScalar("o1"))}

\* C25: on the relational backend, for every non-empty filter map F over known fields
\* and every key that names no field of the model, list_all, count, exists and find_one
\* with F plus that key return what they return with F alone.
C25_UnknownKeyIgnored ==
    backend = "sql" =>
        \A filters \in FilterMaps \ {{}}, unknown \in UnknownKeys :
            /\ SqlCountWhere(filters \cup {unknown}) = SqlCountWhere(filters)
            /\ SqlExists(filters \cup {unknown}) = SqlExists(filters)
            /\ SqlFindOne(filters \cup {unknown}) = SqlFindOne(filters)
            /\ SqlListAll(MaxRecords, 0, {}, filters \cup {unknown})
                  = SqlListAll(MaxRecords, 0, {}, filters)

\* a method is enabled when the list holds its lower-cased form
Enabled(merchant, method) == Contains(merchant.payment_methods, MethodLower(method))

\* C26: after any sequence of add_payment_method and remove_payment_method calls,
\* payment_methods never holds the same method twice; adding an enabled method fails
\* with ValueError and leaves payment_methods and updated_at unchanged, removing an
\* enabled method removes it, and removing a method that is not enabled fails with
\* ValueError.
C26_PaymentMethodsUnique ==
    /\ \A i, j \in 1..Len(held.payment_methods) :
            held.payment_methods[i] = held.payment_methods[j] => i = j
    /\ (last.op = "add_payment_method" /\ Enabled(last.arg.before, last.arg.method)) =>
            /\ last.out.exc = "ValueError"
            /\ held = last.arg.before
    /\ last.op = "remove_payment_method" =>
            IF Enabled(last.arg.before, last.arg.method)
            THEN Returned(last.out) /\ ~Enabled(held, last.arg.method)
            ELSE last.out.exc = "ValueError"

\* C27: on the relational backend, when a status change of a principal is committed
\* while a get_logged_in_user call for the same principal is between reading it and its
\* update_login_time call, then once that call has completed the stored status of the
\* principal is the one the status change wrote.
ResolvedAcross(q) ==
    /\ held # <<>>
    /\ q \in InFlight
    /\ q \in held.during
    /\ running[q].op = "get_logged_in_user"
    /\ running[q].pc = "done"
    /\ \E u \in running[q].user : u.id = held.id

C27_StatusChangeSurvivesLogin ==
    \A q \in Requests :
        ResolvedAcross(q) => \E r \in db : r.id = held.id /\ r.status = held.status

C27_Witness ==
    \E q \in Requests :
        /\ ResolvedAcross(q)
        /\ Returned(running[q].out)
        /\ held.status # ACTIVE
        /\ \E r \in db : r.id = held.id /\ r.status = held.status

\* C28: on the volatile backend a call of activate(), deactivate() or suspend() on an
\* entity object, whether or not the object was passed to save or returned by get or
\* find_one before, leaves the stored state as it was: the store changes only through
\* save, bulk_save, delete and bulk_delete.
C28_StoreChangesOnlyThroughWrites ==
    last.op \in StatusMethods => mem = last.arg.before

\* an entity satisfies a key of a filter map when it has a field of that name whose
\* value is the key's value
Satisfies(entity, filters) ==
    \A item \in filters :
        /\ item.field \in DOMAIN entity
        /\ entity[item.field] \in item.value.vals

ScalarMap(filters) ==
    /\ filters # {}
    /\ \A item \in filters : item.value.kind = "scalar"

\* C29: on both backends bulk_delete with a non-empty filter map of plain values removes
\* exactly the stored entities that satisfy every key of the map and returns their
\* number, 0 without error when there is none: entities that do not satisfy a key stay,
\* and a map that no stored entity satisfies leaves the store as it was.
C29_BulkDeleteExactlyMatches ==
    (last.op = "bulk_delete" /\ ScalarMap(last.arg.filters)) =>
        LET before == last.arg.store
            filters == last.arg.filters
        IN  IF backend = "memory"
            THEN /\ mem = SelectSeq(before.mem, LAMBDA e : ~Satisfies(e, filters))
                 /\ last.out = Ok(Len(before.mem) - Len(mem))
            ELSE /\ db = {r \in before.db : ~Satisfies(r, filters)}
                 /\ last.out = Ok(Cardinality(before.db) - Cardinality(db))

\* C30: when list_users returns, the total next to the page is the number of stored
\* users that match the filter that selected the page (the organization, and the status
\* when one is given), whatever limit and offset are.
C30_TotalCountsFilteredUsers ==
    (last.op = "list_users" /\ Returned(last.out)) =>
        Value(last.out).total
            = Value(RepoCountWhere(query_filter(last.arg.org_id, last.arg.status)))

====
